---- MODULE Spec2Model ----
(***************************************************************************)
(* Model of github.com/krostar/test: the assertion surface (Assert,        *)
(* Require, logResult), the message assembly (message.FromBool), the       *)
(* expression rewriter (customizeASTExprRepr), the caller-site resolver    *)
(* (code.GetCallerCallExpr), the package-AST cache (code.GetPackageAST)    *)
(* the test doubles (double.Spy over a TestingT, Spy.ExpectRecords) and   *)
(* the retry loop of check.Eventually.                                     *)
(***************************************************************************)
EXTENDS Integers, Sequences, FiniteSets, TLC

VARIABLES
    astPkgPathToPkg,          \* code._astPkgPathToPkg: "nil" or a map dir -> mapping
    astLock,                  \* code._astLock: the goroutine holding it, or "free"
    nextId,                   \* identity handed to the next mapping the loader builds
    SuccessMessageEnabled,    \* test.SuccessMessageEnabled
    flagEnableSuccessMessage, \* *test._flagEnableSuccessMessage
    call,                     \* the last call made by the test goroutine and its inputs
    records,                  \* the TestingT method calls of that call, in order
    ret,                      \* what that call returned (or that it panicked)
    trace,                    \* the internal functions that call went through, in order
    fromBool,                 \* what message.FromBool did during that call, if called
    pc,                       \* per goroutine: its position inside GetPackageAST
    req,                      \* per goroutine: the directory it asked for
    res,                      \* per goroutine: what its last GetPackageAST returned
    hist,                     \* what the loader did so far: per directory the loads that
                              \* succeeded, and the directories whose last load failed
    spy,                      \* the double.Spy under test: m, underlyingT, failed, logs,
                              \* records
    spc,                      \* per goroutine: its position inside a Spy method, the
                              \* call it makes and what the underlying method returned
    spyCalls,                 \* the Spy method calls in the order they took spy.m, each
                              \* with how far it got
    ev,                       \* the call of check.Eventually: its context, timer,
                              \* channels and locals, and what its check did so far
    tc,                       \* the call of test.Context: its TestingT, its locals,
                              \* the TestingT methods it called and what it returned
    heap,                     \* the backing arrays of the slog handlers' slices
    handlers,                 \* the slog handlers built so far: attrs, groups, and
                              \* the WithAttrs/WithGroup calls that built each
    logged                    \* the last Handle call: its handler, its record and
                              \* the line it passed to t.Logf

cacheVars  == << astLock, pc, req, res, hist >>
doubleVars == << spy, spc, spyCalls >>
checkVars  == << ev >>
contextVars == << tc >>
slogVars   == << heap, handlers, logged >>

vars == << astPkgPathToPkg, nextId, SuccessMessageEnabled, flagEnableSuccessMessage,
           call, records, ret, trace, fromBool, cacheVars, doubleVars, checkVars,
           contextVars, slogVars >>

-----------------------------------------------------------------------------
(* Strings and formatting                                                  *)

NoErr == ""

\* F applied to the value of v, which is computed once (a local variable).
Bind(v, F(_)) == CHOOSE r \in { F(x) : x \in {v} } : TRUE

BoolStr(b) == IF b THEN "true" ELSE "false"

HasPrefix(s, prefix) ==
    /\ Len(s) >= Len(prefix)
    /\ SubSeq(s, 1, Len(prefix)) = prefix

TrimPrefix(s, prefix) ==
    IF HasPrefix(s, prefix) THEN SubSeq(s, Len(prefix) + 1, Len(s)) ELSE s

RECURSIVE Contains(_, _)
Contains(s, sub) ==
    IF Len(s) < Len(sub) THEN FALSE
    ELSE IF SubSeq(s, 1, Len(sub)) = sub THEN TRUE
    ELSE Contains(SubSeq(s, 2, Len(s)), sub)

-----------------------------------------------------------------------------
(* go/types: the static types and objects the type checker records         *)

TNone        == [k |-> "nil", kind |-> "", str |-> "<nil>", results |-> << >>]
TBool        == [k |-> "Basic", kind |-> "Bool", str |-> "bool", results |-> << >>]
TUntypedBool == [k |-> "Basic", kind |-> "UntypedBool", str |-> "untyped bool", results |-> << >>]
TInt         == [k |-> "Basic", kind |-> "Int", str |-> "int", results |-> << >>]
TString      == [k |-> "Basic", kind |-> "String", str |-> "string", results |-> << >>]
TUntypedNil  == [k |-> "Basic", kind |-> "UntypedNil", str |-> "untyped nil", results |-> << >>]
TError       == [k |-> "Named", kind |-> "", str |-> "error", results |-> << >>]
TNamedBool   == [k |-> "Named", kind |-> "", str |-> "pkg.Flag", results |-> << >>]
TPtrMyErr    == [k |-> "Pointer", kind |-> "", str |-> "**pkg.MyErr", results |-> << >>]
TSlice       == [k |-> "Slice", kind |-> "", str |-> "[]bool", results |-> << >>]
TTuple       == [k |-> "Tuple", kind |-> "", str |-> "(test.TestingT, bool, string)", results |-> << >>]
TPtrT        == [k |-> "Pointer", kind |-> "", str |-> "*testing.T", results |-> << >>]
TSig(results) == [k |-> "Signature", kind |-> "", str |-> "func", results |-> results]

UniverseErrorType == TError

LocalPkg == "github.com/krostar/test/example"

-----------------------------------------------------------------------------
(* go/ast: expression nodes.  Every node carries the line of its starting  *)
(* position (token.FileSet.Position(node.Pos()).Line), its static type     *)
(* (types.Info.TypeOf) and its constant value (types.Info.Types[e].Value:  *)
(* "true"/"false" for a boolean constant, "other" for another constant,    *)
(* "none" when the expression is no constant).                             *)

Node(kind, line, typ, cval, f) ==
    [kind |-> kind, line |-> line, typ |-> typ, cval |-> cval,
     name |-> f.name, obj |-> f.obj, pkg |-> f.pkg, universe |-> f.universe,
     op |-> f.op, X |-> f.X, Y |-> f.Y, Fun |-> f.Fun, Args |-> f.Args, text |-> f.text]

NoFields == [name |-> "", obj |-> "", pkg |-> "", universe |-> FALSE, op |-> "",
             X |-> << >>, Y |-> << >>, Fun |-> << >>, Args |-> << >>, text |-> ""]

\* obj is the kind of types.Object the identifier denotes ("Var", "Const", "Nil",
\* "Func", "TypeName", "PkgName", or "none" when ObjectOf returns nil); pkg is
\* obj.Pkg().Path(), or "nil" when obj.Pkg() is nil (universe objects).
Ident(name, line, obj, typ, cval, pkg, universe) ==
    Node("Ident", line, typ, cval,
         [NoFields EXCEPT !.name = name, !.obj = obj, !.pkg = pkg, !.universe = universe])

VarIdent(name, line, typ) == Ident(name, line, "Var", typ, "none", LocalPkg, FALSE)
NilIdent(line)            == Ident("nil", line, "Nil", TUntypedNil, "none", "nil", TRUE)
TrueIdent(line)           == Ident("true", line, "Const", TUntypedBool, "true", "nil", TRUE)
FalseIdent(line)          == Ident("false", line, "Const", TUntypedBool, "false", "nil", TRUE)
ConstIdent(name, line, typ, cval) == Ident(name, line, "Const", typ, cval, LocalPkg, FALSE)
FuncIdent(name, line, pkg, typ)   == Ident(name, line, "Func", typ, "none", pkg, FALSE)
PkgIdent(name, line)      == Ident(name, line, "PkgName", TNone, "none", LocalPkg, FALSE)
TypeIdent(name, line)     == Ident(name, line, "TypeName", TBool, "none", "nil", TRUE)
UnresolvedIdent(name, line) == Ident(name, line, "none", TNone, "none", "nil", FALSE)

BasicLit(text, line, typ) ==
    Node("BasicLit", line, typ, "other", [NoFields EXCEPT !.text = text])

BinaryExpr(x, op, y, cval) ==
    Node("BinaryExpr", x.line,
         IF op \in {"+", "-"} THEN x.typ ELSE TUntypedBool, cval,
         [NoFields EXCEPT !.op = op, !.X = x, !.Y = y])

UnaryExpr(op, x, line, typ) ==
    Node("UnaryExpr", line, typ, IF op = "!" /\ x.cval \in {"true", "false"}
                                 THEN (IF x.cval = "true" THEN "false" ELSE "true")
                                 ELSE "none",
         [NoFields EXCEPT !.op = op, !.X = x])

ParenExpr(x, line) ==
    Node("ParenExpr", line, x.typ, x.cval, [NoFields EXCEPT !.X = x])

SelectorExpr(x, sel) ==
    Node("SelectorExpr", x.line, sel.typ, sel.cval,
         [NoFields EXCEPT !.X = x, !.name = sel.name, !.Y = sel])

\* typ is the type of the call's value: the single result of the callee.
CallExpr(fun, args, typ) ==
    Node("CallExpr", fun.line, typ, "none", [NoFields EXCEPT !.Fun = fun, !.Args = args])

\* body holds the statements of the literal's block.
FuncLit(text, line, typ, body) ==
    Node("FuncLit", line, typ, "none", [NoFields EXCEPT !.text = text, !.Args = body])

IndexExpr(x, index, typ) ==
    Node("IndexExpr", x.line, typ, "none", [NoFields EXCEPT !.X = x, !.Y = index])

CompositeLit(text, line, typ) ==
    Node("CompositeLit", line, typ, "none", [NoFields EXCEPT !.text = text])

\* Statements: the only thing the resolver needs of them is their children.
Stmt(kind, line, children) ==
    Node(kind, line, TNone, "none", [NoFields EXCEPT !.Args = children])

-----------------------------------------------------------------------------
(* genericASTExprToString: format.Node re-serializes the node to source    *)
(* text.                                                                   *)

RECURSIVE genericASTExprToString(_)
RECURSIVE JoinExprs(_)
JoinExprs(args) ==
    IF Len(args) = 0 THEN ""
    ELSE IF Len(args) = 1 THEN genericASTExprToString(args[1])
    ELSE genericASTExprToString(args[1]) \o ", " \o JoinExprs(Tail(args))

genericASTExprToString(expr) ==
    CASE expr.kind = "Ident"        -> expr.name
      [] expr.kind = "BasicLit"     -> expr.text
      [] expr.kind = "FuncLit"      -> expr.text
      [] expr.kind = "CompositeLit" -> expr.text
      [] expr.kind = "BinaryExpr"   ->
            genericASTExprToString(expr.X) \o " " \o expr.op \o " "
                \o genericASTExprToString(expr.Y)
      [] expr.kind = "UnaryExpr"    -> expr.op \o genericASTExprToString(expr.X)
      [] expr.kind = "ParenExpr"    -> "(" \o genericASTExprToString(expr.X) \o ")"
      [] expr.kind = "SelectorExpr" ->
            genericASTExprToString(expr.X) \o "." \o expr.name
      [] expr.kind = "IndexExpr"    ->
            genericASTExprToString(expr.X) \o "[" \o genericASTExprToString(expr.Y) \o "]"
      [] expr.kind = "CallExpr"     ->
            genericASTExprToString(expr.Fun) \o "(" \o JoinExprs(expr.Args) \o ")"
      [] OTHER                      -> "<error formatting expression: unsupported node>"

-----------------------------------------------------------------------------
(* The rewriter's helpers                                                  *)

isExprNil(expr) == expr.kind = "Ident" /\ expr.obj = "Nil"

isExprBool(expr) ==
    /\ expr.typ.k = "Basic"
    /\ expr.typ.kind \in {"Bool", "UntypedBool"}

isExprFunc(expr) == expr.kind = "CallExpr"

\* Mutation: every call counts as a call returning only an error.
isExprFuncReturningAnything(expr) == expr.kind = "CallExpr"

isExprFuncReturningOnlyError(expr) ==
    /\ expr.kind = "CallExpr"
    /\ expr.Fun.typ.k = "Signature"
    /\ Len(expr.Fun.typ.results) = 1
    /\ expr.Fun.typ.results[1] = UniverseErrorType

\* A rendering outcome: the returned string and error ("" is the nil error), or
\* a panic that unwinds the caller (err then holds the panic value).
Ok(msg)       == [msg |-> msg, err |-> NoErr, panic |-> FALSE]
Err(err)      == [msg |-> "", err |-> err, panic |-> FALSE]
Panic(reason) == [msg |-> "", err |-> reason, panic |-> TRUE]

\* getIdentSelector: (obj.Pkg().Path(), obj.Name(), error); p and t replace msg.
getIdentSelector(ident) ==
    IF ident.obj = "none"
    THEN [p |-> "", t |-> "", err |-> "ident object is nil", panic |-> FALSE]
    ELSE IF ident.pkg = "nil"
    THEN [p |-> "", t |-> "", err |-> "invalid memory address or nil pointer dereference",
          panic |-> TRUE]
    ELSE [p |-> ident.pkg, t |-> ident.name, err |-> NoErr, panic |-> FALSE]

\* mustGetExprBoolValue: the constant boolean value of expr; panics when expr is
\* no boolean constant.
mustGetExprBoolValue(expr) ==
    IF expr.cval \in {"true", "false"}
    THEN Ok(expr.cval)
    ELSE Panic("type " \o genericASTExprToString(expr)
                  \o " not found or value is not a bool")

\* The two-argument renderings of the well-known functions index Args[0] and
\* Args[1]: a call written with fewer arguments (f(g()) with a multi-valued g)
\* panics with an index out of range.
TwoArgs(expr, rendering) ==
    IF Len(expr.Args) < 2 THEN Panic("index out of range") ELSE Ok(rendering)

\* genericASTExprToString(pkg, expr.Args[i]), i counted from 0 as in the source
ArgText(expr, i) == genericASTExprToString(expr.Args[i + 1])

-----------------------------------------------------------------------------
(* customizeASTExprRepr(pkg, result, expr): the polarity-aware rewriter.   *)
(* The type information of pkg is carried by the nodes themselves.         *)

\* case *ast.BinaryExpr with ==, !=
EqualityRepr(result, expr, x, y) ==
    LET resultIsEqual        == (expr.op = "==" /\ result) \/ (expr.op = "!=" /\ ~result)
        xIsFunc              == isExprFunc(expr.X)
        xIsFuncRetuningError == isExprFuncReturningOnlyError(expr.X)
        yIsNil               == isExprNil(expr.Y)
        yIsBool              == isExprBool(expr.Y)
    IN  CASE xIsFunc /\ xIsFuncRetuningError /\ yIsNil /\ resultIsEqual ->
                Ok(x \o " returned no error")
          [] xIsFunc /\ xIsFuncRetuningError /\ yIsNil /\ ~resultIsEqual ->
                Ok(x \o " returned an error")
          [] xIsFunc /\ yIsNil /\ resultIsEqual  -> Ok(x \o " returned nil")
          [] xIsFunc /\ yIsNil /\ ~resultIsEqual -> Ok(x \o " returned not nil")
          [] xIsFunc /\ yIsBool -> Ok(x \o " returned " \o BoolStr(result))
          [] ~xIsFunc /\ yIsNil /\ resultIsEqual  -> Ok(x \o " is nil")
          [] ~xIsFunc /\ yIsNil /\ ~resultIsEqual -> Ok(x \o " is not nil")
          [] ~xIsFunc /\ yIsBool /\ resultIsEqual ->
                Bind(mustGetExprBoolValue(expr.Y), LAMBDA b :
                    IF b.panic THEN b ELSE Ok(x \o " is " \o b.msg))
          [] ~xIsFunc /\ yIsBool /\ ~resultIsEqual ->
                Bind(mustGetExprBoolValue(expr.Y), LAMBDA b :
                    IF b.panic THEN b ELSE Ok(x \o " is not " \o b.msg))
          [] OTHER ->
                IF resultIsEqual THEN Ok(x \o " is equal to " \o y)
                ELSE Ok(x \o " is not equal to " \o y)

\* case *ast.BinaryExpr with >, >=, <, <= and the default of the operator switch
OrderingRepr(result, expr, x, y) ==
    CASE (expr.op = ">" /\ result) \/ (expr.op = "<=" /\ ~result) ->
            Ok(x \o " is greater than " \o y)
      [] (expr.op = ">=" /\ ~result) \/ (expr.op = "<" /\ result) ->
            Ok(x \o " is less than " \o y)
      [] (expr.op = ">=" /\ result) \/ (expr.op = "<" /\ ~result) ->
            Ok(x \o " is greater than or equal to " \o y)
      [] (expr.op = ">" /\ ~result) \/ (expr.op = "<=" /\ result) ->
            Ok(x \o " is less than or equal to " \o y)
      [] OTHER -> Err("unhandled binary operator " \o expr.op)

\* the separator of the && / || case
LogicalSep(op, result) ==
    IF op = "&&"
    THEN (IF result THEN ", and " ELSE ", or ")
    ELSE (IF result THEN ", or " ELSE ", and ")

\* A rewriter whose catalog of well-known functions is empty: every call takes
\* the default case of the switch.
KnownCallReprDefault(result, expr, p, t) ==
    Ok("function " \o genericASTExprToString(expr) \o " returned " \o BoolStr(result))

\* case *ast.CallExpr, once the callee's package path p and name t are known
KnownCallRepr(result, expr, p, t) ==
    CASE (p = "slices" /\ t = "Contains") \/ (p = "strings" /\ t = "Contains") ->
            TwoArgs(expr,
                IF result THEN ArgText(expr, 0) \o " contains " \o ArgText(expr, 1)
                ELSE ArgText(expr, 0) \o " does not contain " \o ArgText(expr, 1))
      [] (p = "bytes" /\ t = "Equal") \/ (p = "maps" /\ t = "Equal")
            \/ (p = "reflect" /\ t = "DeepEqual") \/ (p = "slices" /\ t = "Equal") ->
            TwoArgs(expr,
                IF result THEN ArgText(expr, 0) \o " is equal to " \o ArgText(expr, 1)
                ELSE ArgText(expr, 0) \o " is not equal to " \o ArgText(expr, 1))
      [] p = "errors" /\ t = "Is" ->
            TwoArgs(expr,
                IF result
                THEN ArgText(expr, 0) \o "'s error tree contains " \o ArgText(expr, 1)
                ELSE ArgText(expr, 1) \o " is not in the error tree of "
                        \o ArgText(expr, 0))
      [] p = "errors" /\ t = "As" ->
            TwoArgs(expr,
                IF result
                THEN ArgText(expr, 0) \o " can be defined as " \o expr.Args[2].typ.str
                ELSE ArgText(expr, 0) \o " cannot be defined as " \o expr.Args[2].typ.str)
      [] OTHER ->
            Ok("function " \o genericASTExprToString(expr) \o " returned "
                   \o BoolStr(result))

\* the callee resolved by getIdentSelector; what names the failure in the error
SelectedCallRepr(result, expr, sel, what) ==
    IF sel.panic THEN Panic(sel.err)
    ELSE IF sel.err # NoErr
    THEN Err("unable to get " \o what \o " selector from *errors.errorString: "
                \o genericASTExprToString(expr))
    ELSE KnownCallRepr(result, expr, sel.p, sel.t)

CallRepr(result, expr) ==
    CASE expr.Fun.kind = "FuncLit" ->
            Ok(genericASTExprToString(expr) \o " returned " \o BoolStr(result))
      [] expr.Fun.kind = "Ident" ->
            SelectedCallRepr(result, expr, getIdentSelector(expr.Fun), "func ident")
      [] expr.Fun.kind = "SelectorExpr" ->
            SelectedCallRepr(result, expr, getIdentSelector(expr.Fun.Y), "func.Sel")
      [] OTHER -> Err("unhandled function type *ast." \o expr.Fun.kind)

\* case *ast.Ident
IdentRepr(result, expr) ==
    CASE expr.obj = "Var" -> Ok("var " \o expr.name \o " is " \o BoolStr(result))
      [] expr.obj = "Const" ->
            IF /\ expr.typ.k = "Basic"
               /\ expr.typ.kind \in {"Bool", "UntypedBool"}
               /\ expr.universe
            THEN Ok("literal " \o expr.name)
            ELSE Ok("const " \o expr.name \o " is " \o BoolStr(result))
      [] OTHER -> Err("unexpected ident obj of type *types." \o expr.obj)

RECURSIVE customizeASTExprRepr(_, _)

\* Mutation: the operand of a negation is rendered under the same polarity.
UnaryReprSamePolarity(result, expr) ==
    IF expr.op = "!"
    THEN IF expr.X.kind \in {"CallExpr", "Ident", "ParenExpr", "UnaryExpr"}
         THEN customizeASTExprRepr(result, expr.X)
         ELSE Err("unhandled unary expr operator *ast." \o expr.X.kind)
    ELSE IF expr.op = "<-"
    THEN customizeASTExprRepr(result, expr.X)
    ELSE Err("unhandled unary operator token.Token")

\* Mutation: the operand of a receive is rendered under the flipped polarity.
UnaryReprArrowFlips(result, expr) ==
    IF expr.op = "!"
    THEN IF expr.X.kind \in {"CallExpr", "Ident", "ParenExpr", "UnaryExpr"}
         THEN customizeASTExprRepr(~result, expr.X)
         ELSE Err("unhandled unary expr operator *ast." \o expr.X.kind)
    ELSE IF expr.op = "<-"
    THEN customizeASTExprRepr(~result, expr.X)
    ELSE Err("unhandled unary operator token.Token")

\* case *ast.UnaryExpr
UnaryRepr(result, expr) ==
    IF expr.op = "!"
    THEN IF expr.X.kind \in {"CallExpr", "Ident", "ParenExpr", "UnaryExpr"}
         THEN customizeASTExprRepr(~result, expr.X)
         ELSE Err("unhandled unary expr operator *ast." \o expr.X.kind)
    ELSE IF expr.op = "<-"
    THEN customizeASTExprRepr(result, expr.X)
    ELSE Err("unhandled unary operator token.Token")

customizeASTExprRepr(result, expr) ==
    CASE expr.kind = "BinaryExpr" ->
            IF expr.op \in {"&&", "||"}
            THEN Bind(customizeASTExprRepr(result, expr.X), LAMBDA cx :
                    IF cx.panic THEN cx
                    ELSE IF cx.err # NoErr
                    THEN Err("unable to get LAND/LOR *ast.BinaryExpr.X custom repr: "
                                \o cx.err)
                    ELSE Bind(customizeASTExprRepr(result, expr.Y), LAMBDA cy :
                        IF cy.panic THEN cy
                        ELSE IF cy.err # NoErr
                        THEN Err("unable to get LAND/LOR *ast.BinaryExpr.Y custom repr: "
                                    \o cy.err)
                        ELSE Ok(cx.msg \o LogicalSep(expr.op, result) \o cy.msg)))
            ELSE IF expr.op \in {"==", "!="}
            THEN EqualityRepr(result, expr, genericASTExprToString(expr.X),
                              genericASTExprToString(expr.Y))
            ELSE OrderingRepr(result, expr, genericASTExprToString(expr.X),
                              genericASTExprToString(expr.Y))
      [] expr.kind = "CallExpr" -> CallRepr(result, expr)
      [] expr.kind = "Ident" -> IdentRepr(result, expr)
      [] expr.kind = "ParenExpr" -> customizeASTExprRepr(result, expr.X)
      [] expr.kind = "SelectorExpr" ->
            Ok(genericASTExprToString(expr) \o " is " \o BoolStr(result))
      [] expr.kind = "UnaryExpr" -> UnaryRepr(result, expr)
      [] OTHER -> Err("unhandled expr type *ast." \o expr.kind)

-----------------------------------------------------------------------------
(* code.GetCallerCallExpr: the caller-site resolver                        *)

\* The children ast.Inspect visits, in its order.
Children(node) ==
    CASE node.kind \in {"BinaryExpr", "IndexExpr", "SelectorExpr"} -> << node.X, node.Y >>
      [] node.kind \in {"UnaryExpr", "ParenExpr"} -> << node.X >>
      [] node.kind = "CallExpr" -> << node.Fun >> \o node.Args
      [] OTHER -> node.Args

\* The nodes of the tree in the depth-first pre-order of ast.Inspect.
RECURSIVE PreOrder(_)
RECURSIVE PreOrderAll(_)
PreOrderAll(nodes) ==
    IF Len(nodes) = 0 THEN << >>
    ELSE PreOrder(nodes[1]) \o PreOrderAll(Tail(nodes))

PreOrder(node) == << node >> \o PreOrderAll(Children(node))

NilNode == [kind |-> "nil"]

\* Mutation: the last call expression met on the line is kept.
getASTCallExprAtLineLast(file, line) ==
    Bind(SelectSeq(PreOrder(file.root), LAMBDA n : n.kind = "CallExpr" /\ n.line = line),
         LAMBDA calls :
            IF Len(calls) = 0
            THEN [expr |-> NilNode, err |-> "ast inspection did not return a node"]
            ELSE [expr |-> calls[Len(calls)], err |-> NoErr])

\* getASTCallExprAtLine: the first call expression, in traversal order, whose
\* starting position is on the line.
getASTCallExprAtLine(file, line) ==
    Bind(SelectSeq(PreOrder(file.root), LAMBDA n : n.kind = "CallExpr" /\ n.line = line),
         LAMBDA calls :
            IF Len(calls) = 0
            THEN [expr |-> NilNode, err |-> "ast inspection did not return a node"]
            ELSE [expr |-> calls[1], err |-> NoErr])

\* findCallerPackageAndASTFile: the (package, file) pairs of the mapping whose
\* file is recorded under callerFile; the map iteration returns one of them.
findCallerPackageAndASTFile(pkgs, callerFile) ==
    { << path, i >> \in UNION { {path} \X DOMAIN pkgs.byPath[path].Syntax
                                  : path \in DOMAIN pkgs.byPath } :
        pkgs.byPath[path].Syntax[i].name = callerFile }

\* Mutation: the file and the package found are returned with the error.
CallExprInKeepsFile(pkgs, hit, callerLine) ==
    Bind(getASTCallExprAtLine(pkgs.byPath[hit[1]].Syntax[hit[2]], callerLine), LAMBDA at :
        [expr |-> at.expr, file |-> pkgs.byPath[hit[1]].Syntax[hit[2]].name, pkg |-> hit[1],
         err |-> IF at.err # NoErr THEN "unable to get call expression: " \o at.err
                 ELSE NoErr])

\* lines 157-162, for the package (by its key) and the file (by its index) found
CallExprIn(pkgs, hit, callerLine) ==
    Bind(getASTCallExprAtLine(pkgs.byPath[hit[1]].Syntax[hit[2]], callerLine), LAMBDA at :
        IF at.err # NoErr
        THEN [expr |-> NilNode, file |-> "nil", pkg |-> "nil",
              err |-> "unable to get call expression: " \o at.err]
        ELSE [expr |-> at.expr, file |-> pkgs.byPath[hit[1]].Syntax[hit[2]].name,
              pkg |-> hit[1], err |-> NoErr])

GetCallerCallExpr(pkgs, callerFile, callerLine) ==
    Bind(findCallerPackageAndASTFile(pkgs, callerFile), LAMBDA found :
        IF found = {}
        THEN [expr |-> NilNode, file |-> "nil", pkg |-> "nil",
              err |-> "unable to find ast file and package for " \o callerFile]
        ELSE CallExprIn(pkgs, CHOOSE h \in found : TRUE, callerLine))

-----------------------------------------------------------------------------
(* code.ParsePackageAST and code.GetPackageAST: the package-AST cache      *)

RECURSIVE JoinErrs(_)
JoinErrs(errs) ==
    IF Len(errs) = 0 THEN ""
    ELSE IF Len(errs) = 1 THEN errs[1]
    ELSE errs[1] \o "; " \o JoinErrs(Tail(errs))

RECURSIVE AllErrors(_)
AllErrors(pkgs) ==
    IF Len(pkgs) = 0 THEN << >> ELSE pkgs[1].Errors \o AllErrors(Tail(pkgs))

\* packages.Visit: the packages and everything they import, each once.
RECURSIVE Visit(_)
Visit(pkgs) ==
    IF Len(pkgs) = 0 THEN {}
    ELSE {pkgs[1]} \cup Visit(pkgs[1].Imports) \cup Visit(Tail(pkgs))

\* The keys a visited package is registered under.
PkgKeys(pkg) ==
    IF HasPrefix(pkg.PkgPath, "vendor/")
    THEN {pkg.PkgPath, TrimPrefix(pkg.PkgPath, "vendor/")}
    ELSE {pkg.PkgPath}

\* The nil map[string]*packages.Package; the maps the loader allocates are
\* identified by ids from 1.
NilPkgs == [id |-> 0, byPath |-> << >>]

\* Mutation: the diagnostics of the loaded packages are not looked at.
ParsePackageASTUnchecked(load, id) ==
    IF load.err # NoErr
    THEN [pkgs |-> NilPkgs, err |-> "unable to load packages: " \o load.err]
    ELSE Bind(Visit(load.pkgs), LAMBDA visited :
            [pkgs |-> [id |-> id,
                       byPath |-> [k \in UNION { PkgKeys(pkg) : pkg \in visited } |->
                           CHOOSE pkg \in visited : k \in PkgKeys(pkg)]],
             err |-> NoErr])

\* load is what packages.Load returned: [err, pkgs]; id is the identity of the
\* map this invocation allocates.
ParsePackageAST(load, id) ==
    IF load.err # NoErr
    THEN [pkgs |-> NilPkgs, err |-> "unable to load packages: " \o load.err]
    ELSE IF Len(AllErrors(load.pkgs)) > 0
    THEN [pkgs |-> NilPkgs,
          err |-> "loaded packages contained errors: " \o JoinErrs(AllErrors(load.pkgs))]
    ELSE Bind(Visit(load.pkgs), LAMBDA visited :
            [pkgs |-> [id |-> id,
                       byPath |-> [k \in UNION { PkgKeys(pkg) : pkg \in visited } |->
                           CHOOSE pkg \in visited : k \in PkgKeys(pkg)]],
             err |-> NoErr])

\* The cache is a Go map: nil until first made, then a map from directory.
NilCache == [isNil |-> TRUE, m |-> << >>]

CacheHas(cache, pkgDir) == pkgDir \in DOMAIN cache.m

\* Mutation: the map is made anew on every store.
CacheStoreRemade(cache, pkgDir, pkgPathToPkg) ==
    [isNil |-> FALSE, m |-> [d \in {pkgDir} |-> pkgPathToPkg]]

\* lines 119-127: make the map if it is nil, then store the mapping.
CacheStore(cache, pkgDir, pkgPathToPkg) ==
    [isNil |-> FALSE,
     m |-> [d \in DOMAIN cache.m \cup {pkgDir} |->
                IF d = pkgDir THEN pkgPathToPkg ELSE cache.m[d]]]

\* GetPackageAST with the lock held from entry to return: what it returns, the
\* cache it leaves, and whether it invoked the loader.
GetPackageAST(cache, pkgDir, load, id) ==
    IF CacheHas(cache, pkgDir)
    THEN [pkgs |-> cache.m[pkgDir], err |-> NoErr, cache |-> cache, loaded |-> FALSE]
    ELSE Bind(ParsePackageAST(load, id), LAMBDA parsed :
        IF parsed.err # NoErr
        THEN [pkgs |-> NilPkgs,
              err |-> "unable to parse caller package \"" \o pkgDir \o "\": "
                          \o parsed.err,
              cache |-> cache, loaded |-> TRUE]
        ELSE [pkgs |-> parsed.pkgs, err |-> NoErr,
              cache |-> CacheStore(cache, pkgDir, parsed.pkgs), loaded |-> TRUE])

\* Mutation: the error of GetPackageAST is dropped.
InitPackageASTCacheSilent(err) == [panicked |-> FALSE, reason |-> ""]

\* InitPackageASTCache once GetPackageAST returned err: it panics with the
\* wrapped error, or returns.
InitPackageASTCache(err) ==
    IF err # NoErr
    THEN [panicked |-> TRUE, reason |-> "fail to init package cache: " \o err]
    ELSE [panicked |-> FALSE, reason |-> ""]

-----------------------------------------------------------------------------
(* fmt.Sprintf on the values the assertion surface formats.  A value of    *)
(* type any is [t |-> its dynamic type, s |-> its %v text].                *)

StrV(s) == [t |-> "string", s |-> s]
IntV(s) == [t |-> "int", s |-> s]

\* One verb applied to one operand.
FormatVerb(verb, v) ==
    CASE verb = "v" -> v.s
      [] verb = "s" /\ v.t = "string" -> v.s
      [] verb = "d" /\ v.t = "int" -> v.s
      [] OTHER -> "%!" \o verb \o "(" \o v.t \o "=" \o v.s \o ")"

RECURSIVE JoinExtra(_)
JoinExtra(args) ==
    IF Len(args) = 0 THEN ""
    ELSE args[1].t \o "=" \o args[1].s
            \o (IF Len(args) > 1 THEN ", " ELSE "") \o JoinExtra(Tail(args))

RECURSIVE Sprintf(_, _)
Sprintf(format, args) ==
    IF Len(format) = 0
    THEN (IF Len(args) = 0 THEN "" ELSE "%!(EXTRA " \o JoinExtra(args) \o ")")
    ELSE IF SubSeq(format, 1, 1) # "%"
    THEN SubSeq(format, 1, 1) \o Sprintf(SubSeq(format, 2, Len(format)), args)
    ELSE IF Len(format) = 1
    THEN "%!(NOVERB)" \o Sprintf("", args)
    ELSE IF SubSeq(format, 2, 2) = "%"
    THEN "%" \o Sprintf(SubSeq(format, 3, Len(format)), args)
    ELSE IF Len(args) = 0
    THEN "%!" \o SubSeq(format, 2, 2) \o "(MISSING)"
            \o Sprintf(SubSeq(format, 3, Len(format)), args)
    ELSE FormatVerb(SubSeq(format, 2, 2), args[1])
            \o Sprintf(SubSeq(format, 3, Len(format)), Tail(args))

\* %v of a []any: the elements' %v texts, space separated, in brackets.
RECURSIVE JoinValues(_)
JoinValues(args) ==
    IF Len(args) = 0 THEN ""
    ELSE args[1].s \o (IF Len(args) > 1 THEN " " ELSE "") \o JoinValues(Tail(args))

SliceV(args) == "[" \o JoinValues(args) \o "]"

\* filepath.Clean(filepath.Dir(path)) of a slash-separated path.
RECURSIVE Dir(_)
Dir(path) ==
    IF Len(path) = 0 THEN "."
    ELSE IF SubSeq(path, Len(path), Len(path)) = "/"
    THEN (IF Len(path) = 1 THEN "/" ELSE SubSeq(path, 1, Len(path) - 1))
    ELSE Dir(SubSeq(path, 1, Len(path) - 1))

-----------------------------------------------------------------------------
(* message.FromBool: the message assembly                                  *)

\* Mutation: a depth below the stack reports the outermost frame.
CallerClamped(frames, skip) ==
    IF skip + 1 <= Len(frames)
    THEN [file |-> frames[skip + 1].file, line |-> frames[skip + 1].line, ok |-> TRUE]
    ELSE [file |-> frames[Len(frames)].file, line |-> frames[Len(frames)].line,
          ok |-> TRUE]

\* runtime.Caller(skip) on a stack whose innermost frame comes first.
Caller(frames, skip) ==
    IF skip + 1 <= Len(frames)
    THEN [file |-> frames[skip + 1].file, line |-> frames[skip + 1].line, ok |-> TRUE]
    ELSE [file |-> "", line |-> 0, ok |-> FALSE]

\* Mutation: the first argument is the subject whatever the argument count.
SelectFirstArg(expr) ==
    IF Len(expr.Args) >= 1 THEN [arg |-> expr.Args[1], err |-> NoErr]
    ELSE [arg |-> NilNode,
          err |-> "unexpected call expr arguments number " \o ToString(Len(expr.Args))]

\* lines 319-327: the subject of the explanation.
SelectArg(expr) ==
    IF Len(expr.Args) = 1 THEN [arg |-> expr.Args[1], err |-> NoErr]
    ELSE IF Len(expr.Args) >= 2 THEN [arg |-> expr.Args[2], err |-> NoErr]
    ELSE [arg |-> NilNode,
          err |-> "unexpected call expr arguments number " \o ToString(Len(expr.Args))]

\* What FromBool leaves behind: the returned (msg, err), or the panic; the
\* cache; the functions called; the call expression located and the argument
\* selected as the subject (NilNode when there is none).
FromBoolOut(msg, err, panic, cache, calls, located, arg) ==
    [msg |-> msg, err |-> err, panic |-> panic, cache |-> cache, trace |-> calls,
     located |-> located, arg |-> arg]

\* Mutation: a rendering failure falls back to the text of the subject alone.
FromBoolRenderSubjectFallback(result, expr, cache, calls) ==
    Bind(SelectArg(expr), LAMBDA sel :
    IF sel.err # NoErr
    THEN FromBoolOut("", sel.err, FALSE, cache, calls, expr, NilNode)
    ELSE
    Bind(customizeASTExprRepr(result, sel.arg), LAMBDA repr :
    IF repr.panic
    THEN FromBoolOut("", repr.err, TRUE, cache, calls \o << "customizeASTExprRepr" >>,
                     expr, sel.arg)
    ELSE IF repr.err # NoErr
    THEN FromBoolOut(genericASTExprToString(sel.arg),
                     "unable to get arg repr: " \o repr.err,
                     FALSE, cache, calls \o << "customizeASTExprRepr" >>, expr, sel.arg)
    ELSE FromBoolOut(repr.msg, NoErr, FALSE, cache,
                     calls \o << "customizeASTExprRepr" >>, expr, sel.arg)))

\* lines 319-334: the subject is selected in the located call and rendered.
FromBoolRender(result, expr, cache, calls) ==
    Bind(SelectArg(expr), LAMBDA sel :
    IF sel.err # NoErr
    THEN FromBoolOut("", sel.err, FALSE, cache, calls, expr, NilNode)
    ELSE
    Bind(customizeASTExprRepr(result, sel.arg), LAMBDA repr :
    IF repr.panic
    THEN FromBoolOut("", repr.err, TRUE, cache, calls \o << "customizeASTExprRepr" >>,
                     expr, sel.arg)
    ELSE IF repr.err # NoErr
    THEN FromBoolOut(genericASTExprToString(expr), "unable to get arg repr: " \o repr.err,
                     FALSE, cache, calls \o << "customizeASTExprRepr" >>, expr, sel.arg)
    ELSE FromBoolOut(repr.msg, NoErr, FALSE, cache,
                     calls \o << "customizeASTExprRepr" >>, expr, sel.arg)))

\* frames is the stack while FromBool runs (FromBool's own frame first), cache
\* the package cache, load what packages.Load returns if it is invoked and id
\* the identity of the map a load allocates.
FromBool(callerStackIndex, result, frames, cache, load, id) ==
    Bind(Caller(frames, callerStackIndex + 1), LAMBDA caller :
    IF ~caller.ok
    THEN FromBoolOut("", "no caller information available", FALSE, cache,
                     << "runtime.Caller" >>, NilNode, NilNode)
    ELSE
    Bind(GetPackageAST(cache, Dir(caller.file), load, id), LAMBDA got :
    Bind(<< "runtime.Caller", "code.GetPackageAST" >>
            \o (IF got.loaded THEN << "code.ParsePackageAST" >> ELSE << >>), LAMBDA calls :
    IF got.err # NoErr
    THEN FromBoolOut("", "unable to get package AST: " \o got.err, FALSE, got.cache,
                     calls, NilNode, NilNode)
    ELSE
    Bind(GetCallerCallExpr(got.pkgs, caller.file, caller.line), LAMBDA found :
    IF found.err # NoErr
    THEN FromBoolOut("", "unable to get call expr from caller: " \o found.err, FALSE,
                     got.cache, calls \o << "code.GetCallerCallExpr" >>, NilNode, NilNode)
    ELSE FromBoolRender(result, found.expr, got.cache,
                        calls \o << "code.GetCallerCallExpr" >>)))))

\* FromBool's outcome as the test can observe it, and the absence of a call.
FromBoolSeen(fb) ==
    [called |-> TRUE, msg |-> fb.msg, err |-> fb.err, panic |-> fb.panic,
     located |-> fb.located, arg |-> fb.arg]

NoFromBool ==
    [called |-> FALSE, msg |-> "", err |-> NoErr, panic |-> FALSE,
     located |-> NilNode, arg |-> NilNode]

-----------------------------------------------------------------------------
(* test.logResult, test.Assert and test.Require                            *)

\* One recorded TestingT method call; line is the text Logf formats.
T(method)  == [method |-> method, line |-> ""]
Logf(line) == [method |-> "Logf", line |-> line]

\* Mutation: a leading empty string is kept.
KeepEmpty(msgAndArgs) == msgAndArgs

\* lines 79-82: a leading empty string is dropped.
DropEmpty(msgAndArgs) ==
    IF Len(msgAndArgs) > 0 /\ msgAndArgs[1] = StrV("")
    THEN Tail(msgAndArgs) ELSE msgAndArgs

\* Mutation: the first of several arguments is taken as the format string
\* whatever its type.
WithUserMessageAlwaysFormats(msg, msgAndArgs) ==
    IF Len(msgAndArgs) = 1 THEN msg \o " [" \o msgAndArgs[1].s \o "]"
    ELSE IF Len(msgAndArgs) > 1
    THEN msg \o " [" \o Sprintf(msgAndArgs[1].s, Tail(msgAndArgs)) \o "]"
    ELSE msg

\* lines 93-102: the user's message appended to the explanation.
WithUserMessage(msg, msgAndArgs) ==
    IF Len(msgAndArgs) = 1 THEN msg \o " [" \o msgAndArgs[1].s \o "]"
    ELSE IF Len(msgAndArgs) > 1
    THEN (IF msgAndArgs[1].t = "string"
          THEN msg \o " [" \o Sprintf(msgAndArgs[1].s, Tail(msgAndArgs)) \o "]"
          ELSE msg \o " " \o SliceV(msgAndArgs))
    ELSE msg

\* Mutation: the line is logged even when the message is empty.
ResultLineAlways(result, msg) ==
    << Logf((IF result THEN "Success: " ELSE "Error: ") \o msg) >>

\* lines 105-111: the line logged for a message, none for the empty message.
ResultLine(result, msg) ==
    IF msg # ""
    THEN << Logf((IF result THEN "Success: " ELSE "Error: ") \o msg) >>
    ELSE << >>

\* frames is the stack while logResult runs (its own frame first); enabled is
\* SuccessMessageEnabled || *_flagEnableSuccessMessage.  The outcome holds the
\* TestingT calls made, whether logResult panicked, the cache left behind and
\* the functions called.
logResult(result, callerStackIndex, msgAndArgs, enabled, frames, cache, load, id) ==
    IF (result /\ enabled) \/ ~result
    THEN
    Bind(FromBool(callerStackIndex + 1, result,
                  << [file |-> "message/from_bool.go", line |-> 304] >> \o frames,
                  cache, load, id), LAMBDA fb :
    Bind(WithUserMessage(fb.msg, DropEmpty(msgAndArgs)), LAMBDA msg :
        IF fb.panic
        THEN [records |-> << T("Helper") >>, panic |-> TRUE, cache |-> fb.cache,
              trace |-> << "message.FromBool" >> \o fb.trace, fb |-> FromBoolSeen(fb)]
        ELSE [records |->
                << T("Helper") >>
                \o (IF fb.err # NoErr
                    THEN << Logf("krostar/test internal failure: "
                                    \o "unable to get assertion message: " \o fb.err) >>
                    ELSE << >>)
                \o ResultLine(result, msg),
              panic |-> FALSE, cache |-> fb.cache,
              trace |-> << "message.FromBool" >> \o fb.trace, fb |-> FromBoolSeen(fb)]))
    ELSE [records |-> << T("Helper") >>, panic |-> FALSE, cache |-> cache,
          trace |-> << >>, fb |-> NoFromBool]

\* The stack frames of the library and of the test runner.
LogResultFrame   == [file |-> "/mod/krostar/test/test.go", line |-> 88]
AssertFrame      == [file |-> "/mod/krostar/test/test.go", line |-> 42]
RequireFrame     == [file |-> "/mod/krostar/test/test.go", line |-> 55]
RunnerFrames     == << [file |-> "/go/src/testing/testing.go", line |-> 1792],
                       [file |-> "/go/src/runtime/asm_amd64.s", line |-> 1700] >>

\* What a call left behind: the TestingT calls, the return (kind "return" with
\* the returned bool, or kind "panic"), the cache and the functions called.
\* expr, file and pkg are results of code.GetCallerCallExpr only.
Returned(b) == [kind |-> "return", bool |-> b, msg |-> "", err |-> NoErr,
                expr |-> NilNode, file |-> "nil", pkg |-> "nil"]
Panicked    == [kind |-> "panic", bool |-> FALSE, msg |-> "", err |-> NoErr,
                expr |-> NilNode, file |-> "nil", pkg |-> "nil"]

\* test.Assert called from the frame `site`.
test_Assert(result, msgAndArgs, enabled, site, cache, load, id) ==
    Bind(logResult(result, 1, msgAndArgs, enabled,
                   << LogResultFrame, AssertFrame, site >> \o RunnerFrames,
                   cache, load, id), LAMBDA lr :
        [records |-> << T("Helper") >> \o lr.records
                        \o (IF ~lr.panic /\ ~result THEN << T("Fail") >> ELSE << >>),
         ret     |-> IF lr.panic THEN Panicked ELSE Returned(result),
         cache   |-> lr.cache,
         trace   |-> lr.trace,
         fb      |-> lr.fb])

\* test.Require called from the frame `site`; it has no result (bool stays FALSE).
test_Require(result, msgAndArgs, enabled, site, cache, load, id) ==
    Bind(logResult(result, 1, msgAndArgs, enabled,
                   << LogResultFrame, RequireFrame, site >> \o RunnerFrames,
                   cache, load, id), LAMBDA lr :
        [records |-> << T("Helper") >> \o lr.records
                        \o (IF ~lr.panic /\ ~result THEN << T("FailNow") >> ELSE << >>),
         ret     |-> IF lr.panic THEN Panicked ELSE Returned(FALSE),
         cache   |-> lr.cache,
         trace   |-> lr.trace,
         fb      |-> lr.fb])

-----------------------------------------------------------------------------
(* The test sources the model runs the library on: two packages on disk,   *)
(* their files, and the lines of those files that call the library.        *)

DirA  == "/src/a"
DirB  == "/src/b"
FileA == "/src/a/a_test.go"
FileB == "/src/b/b_test.go"
\* compiled into the test binary under a build tag the loader does not set
FileTagged == "/src/a/integration_test.go"

TestPkgPath == "github.com/krostar/test"

TestSel(fn, line) ==
    SelectorExpr(PkgIdent("test", line), FuncIdent(fn, line, TestPkgPath, TSig(<< TBool >>)))

ExprStmt(x) == Stmt("ExprStmt", x.line, << x >>)

\* test.<fn>(t, subject, extra...)
PlainCall(fn, line, subject, extra) ==
    CallExpr(TestSel(fn, line), << VarIdent("t", line, TPtrT), subject >> \o extra, TBool)

ErrorsIs(line) ==
    CallExpr(SelectorExpr(PkgIdent("errors", line),
                          FuncIdent("Is", line, "errors", TSig(<< TBool >>))),
             << VarIdent("err", line, TError), VarIdent("target", line, TError) >>, TBool)

CheckCompare(line) ==
    CallExpr(SelectorExpr(PkgIdent("check", line),
                          FuncIdent("Compare", line, "github.com/krostar/test/check",
                                    TSig(<< TPtrT, TBool, TString >>))),
             << VarIdent("t", line, TPtrT), VarIdent("got", line, TInt),
                VarIdent("want", line, TInt) >>, TTuple)

\* a_test.go
\*  10  test.Assert(t, got == want)
\*  11  test.Assert(t, b1 == b2, "flags differ")
\*  12  test.Assert(check.Compare(t, got, want))
\*  13  defer func() { test.Require(t, ok) }()
\*  14  test.Require(t, flags[0], reason)
\*  15  test.Assert(t, err == nil, "hello %s", name)
\*  16  test.Require(t, errors.Is(err, target))
\*  17  test.Require(t, ready != expected)
\*  20  test.
\*  21      Assert(t, ok)
\*  30  message.FromBool(0, err == nil)
StmtsA ==
    << ExprStmt(PlainCall("Assert", 10,
            BinaryExpr(VarIdent("got", 10, TInt), "==", VarIdent("want", 10, TInt), "none"),
            << >>)),
       ExprStmt(PlainCall("Assert", 11,
            BinaryExpr(VarIdent("b1", 11, TBool), "==", VarIdent("b2", 11, TBool), "none"),
            << BasicLit("\"flags differ\"", 11, TString) >>)),
       ExprStmt(CallExpr(TestSel("Assert", 12), << CheckCompare(12) >>, TBool)),
       Stmt("DeferStmt", 13,
            << CallExpr(FuncLit("func() { test.Require(t, ok) }", 13, TSig(<< >>),
                                << ExprStmt(PlainCall("Require", 13,
                                                VarIdent("ok", 13, TBool), << >>)) >>),
                        << >>, TNone) >>),
       ExprStmt(PlainCall("Require", 14,
            IndexExpr(VarIdent("flags", 14, TSlice), BasicLit("0", 14, TInt), TBool),
            << VarIdent("reason", 14, TString) >>)),
       ExprStmt(PlainCall("Assert", 15,
            BinaryExpr(VarIdent("err", 15, TError), "==", NilIdent(15), "none"),
            << BasicLit("\"hello %s\"", 15, TString), VarIdent("name", 15, TString) >>)),
       ExprStmt(PlainCall("Require", 16, ErrorsIs(16), << >>)),
       ExprStmt(PlainCall("Require", 17,
            BinaryExpr(VarIdent("ready", 17, TBool), "!=", VarIdent("expected", 17, TBool),
                       "none"),
            << >>)),
       ExprStmt(CallExpr(SelectorExpr(PkgIdent("test", 20),
                                      FuncIdent("Assert", 21, TestPkgPath, TSig(<< TBool >>))),
                         << VarIdent("t", 21, TPtrT), VarIdent("ok", 21, TBool) >>, TBool)),
       ExprStmt(CallExpr(SelectorExpr(PkgIdent("message", 30),
                                      FuncIdent("FromBool", 30,
                                                "github.com/krostar/test/internal/message",
                                                TSig(<< TString, TError >>))),
                         << BasicLit("0", 30, TInt),
                            BinaryExpr(VarIdent("err", 30, TError), "==", NilIdent(30),
                                       "none") >>, TTuple)) >>

\* b_test.go
\*   7  test.Require(t, done, args...)
StmtsB ==
    << ExprStmt(CallExpr(TestSel("Require", 7),
                         << VarIdent("t", 7, TPtrT), VarIdent("done", 7, TBool),
                            VarIdent("args", 7, TSlice) >>, TBool)) >>

SourceFile(name, stmts) == [name |-> name, root |-> Stmt("File", 1, stmts)]

Package(path, syntax, imports) ==
    [PkgPath |-> path, Errors |-> << >>, Syntax |-> syntax, Imports |-> imports]

\* What the loader finds on disk for a directory when nothing fails: the
\* package of the directory and, through its imports, the library and a
\* vendored dependency.
DiskPackages(pkgDir) ==
    LET lib    == Package(TestPkgPath, << >>, << >>)
        vendor == Package("vendor/golang.org/x/text", << >>, << >>)
    IN  IF pkgDir = DirA
        THEN << Package("example.com/a", << SourceFile(FileA, StmtsA) >>, << lib, vendor >>) >>
        ELSE IF pkgDir = DirB
        THEN << Package("example.com/b", << SourceFile(FileB, StmtsB) >>, << lib >>) >>
        ELSE << [Package(pkgDir, << >>, << >>)
                    EXCEPT !.Errors = << "no Go files in " \o pkgDir >>] >>

LoadOutcomes == {"ok", "loadErr", "diagErr"}

\* packages.Load for pkgDir: it loads what is on disk, or fails to run ("loadErr"),
\* or loads packages that carry diagnostics ("diagErr").
Load(pkgDir, outcome) ==
    CASE outcome = "loadErr" -> [err |-> "context canceled", pkgs |-> << >>]
      [] outcome = "diagErr" ->
            [err |-> NoErr,
             pkgs |-> << [Package(pkgDir, << >>, << >>)
                            EXCEPT !.Errors = << "expected declaration", "undefined: x" >>] >>]
      [] OTHER -> [err |-> NoErr, pkgs |-> DiskPackages(pkgDir)]

\* A call site of the test sources: the frame runtime.Caller reports for it, the
\* function called there, and the msgAndArgs values it can pass at run time.
Site(file, line, fn, msgs) == [file |-> file, line |-> line, fn |-> fn, msgs |-> msgs]

Sites ==
    { Site(FileA, 10, "Assert", { << >> }),
      Site(FileA, 11, "Assert", { << StrV("flags differ") >> }),
      Site(FileA, 12, "Assert", { << StrV("") >>, << StrV("comparison differs") >> }),
      Site(FileA, 13, "Require", { << >> }),
      Site(FileA, 14, "Require", { << StrV("") >>, << StrV("flag 0 is unset") >> }),
      Site(FileA, 15, "Assert", { << StrV("hello %s"), StrV("bob") >> }),
      Site(FileA, 16, "Require", { << >> }),
      Site(FileA, 17, "Require", { << >> }),
      Site(FileA, 21, "Assert", { << >> }),
      Site(FileTagged, 5, "Assert", { << >>, << StrV("tagged") >> }),
      Site(FileB, 7, "Require", { << >>, << StrV(""), StrV("%s"), StrV("hello") >>,
                                  << IntV("42"), StrV("hello") >> }) }

Frame(site) == [file |-> site.file, line |-> site.line]

\* The caller of a direct message.FromBool call (a_test.go line 30).
FromBoolSite == [file |-> FileA, line |-> 30]

\* The stack depths a direct caller passes: its own frame, the first depth below
\* the bottom of the stack, and one far below it.
StackIndexes == {0, 3, 100}

-----------------------------------------------------------------------------
(* Package double: Fake, Spy, SpyTestingTRecord and the Spy's expectations *)

\* A value boxed in `any`: its dynamic type and its text.  A func value has
\* the text "nil" when it is nil.
AnyV(t, s)  == [t |-> t, s |-> s]
FuncV(s)    == AnyV("func()", s)
SliceAnyV(args) == AnyV("[]interface {}", SliceV(args))

SpyTestingTRecordIgnoreParam == AnyV("double.spyTestingTRecordIgnoreParam", "42")

SpyTestingTRecord(method, inputs, outputs) ==
    [Method |-> method, Inputs |-> inputs, Outputs |-> outputs]

\* The zero time.Time
ZeroTime == "0001-01-01 00:00:00"

\* The TestingT a Spy wraps.  NewFake(opts...) returns from every method; a
\* *testing.T stops the calling goroutine in FailNow (runtime.Goexit), which
\* runs the deferred calls and never returns to the caller.
NewFake(context, deadline) == [kind |-> "Fake", context |-> context, deadline |-> deadline]
TestingT(context, deadline) ==
    [kind |-> "testing.T", context |-> context, deadline |-> deadline]

\* What a method of the underlying TestingT does: whether it returns, and its
\* results.
Underlying(t, method) ==
    [returns |-> ~(t.kind = "testing.T" /\ method = "FailNow"),
     outputs |->
        CASE method = "Context"  -> << t.context >>
          [] method = "Deadline" ->
                << AnyV("time.Time", t.deadline),
                   AnyV("bool", BoolStr(t.deadline # ZeroTime)) >>
          [] OTHER -> << >>]

\* No Spy built yet, and NewSpy(underlyingT).
NilSpy == [m |-> "free", underlyingT |-> [kind |-> "nil"], delegated |-> << >>,
           failed |-> FALSE, logs |-> << >>, records |-> << >>]
NewSpy(underlyingT) == [NilSpy EXCEPT !.underlyingT = underlyingT]

\* A call of a Spy method: c.method with the cleanup function c.f (Cleanup) or
\* the format and arguments c.format, c.args (Logf).
SpyCallOf(method, f, format, args) ==
    [method |-> method, f |-> f, format |-> format, args |-> args]

\* The record a Spy method appends for the call c once the underlying method
\* returned outputs.
RecordOf(c, outputs) ==
    SpyTestingTRecord(c.method,
        CASE c.method = "Cleanup" -> << FuncV(c.f) >>
          [] c.method = "Logf" -> << StrV(c.format), SliceAnyV(c.args) >>
          [] OTHER -> << >>,
        outputs)

\* The statements of a Spy method after the underlying method returned:
\* the record appended, the log line kept (Logf), failed set (Fail, FailNow).
Recorded(s, c, outputs) ==
    [s EXCEPT
        !.records = Append(@, RecordOf(c, outputs)),
        !.logs = IF c.method = "Logf" THEN Append(@, Sprintf(c.format, c.args)) ELSE @,
        !.failed = @ \/ c.method \in {"Fail", "FailNow"}]

\* assertParams of seemsEqualTo: same length and, position by position, an
\* ignore marker on either side, or the same dynamic type and, for funcs, the
\* same nil status.
assertParams(x, y) ==
    /\ Len(x) = Len(y)
    /\ \A i \in DOMAIN x :
        \/ x[i].t = SpyTestingTRecordIgnoreParam.t
        \/ y[i].t = SpyTestingTRecordIgnoreParam.t
        \/ /\ x[i].t = y[i].t
           /\ ~(x[i].t = "func()" /\ ((x[i].s = "nil") # (y[i].s = "nil")))

seemsEqualTo(a, b) ==
    /\ a.Method = b.Method
    /\ assertParams(a.Inputs, b.Inputs)
    /\ assertParams(a.Outputs, b.Outputs)

\* gocmp.Diff(spy.records, expected, gocmpOpts...) == "": slices of the same
\* length whose elements are pairwise equal for the comparer.
DiffIsEmpty(actual, expected) ==
    /\ Len(actual) = Len(expected)
    /\ \A i \in DOMAIN actual : seemsEqualTo(actual[i], expected[i])

\* The inner loop of the non-strict mode for one recorded call: the first
\* expected record not found yet that the call equals is marked found.
RECURSIVE MarkFirst(_, _, _, _)
MarkFirst(actual, expected, found, i) ==
    IF i > Len(expected) THEN found
    ELSE IF ~found[i] /\ seemsEqualTo(actual, expected[i])
    THEN [found EXCEPT ![i] = TRUE]
    ELSE MarkFirst(actual, expected, found, i + 1)

\* The outer loop: foundExpected after the recorded calls were visited in order.
RECURSIVE foundExpected(_, _, _)
foundExpected(actuals, expected, found) ==
    IF Len(actuals) = 0 THEN found
    ELSE foundExpected(Tail(actuals), expected, MarkFirst(Head(actuals), expected, found, 1))

\* spy.ExpectRecords(t, strict, expected...): the calls it makes on t.  The
\* text of the go-cmp diff is left out of the log line.
ExpectRecords(s, strict, expected) ==
    IF strict
    THEN (IF ~DiffIsEmpty(s.records, expected)
          THEN << T("Helper"), Logf("Expected provided records to match\n<diff>"),
                  T("Fail") >>
          ELSE << T("Helper") >>)
    ELSE (IF \E k \in DOMAIN expected :
                ~foundExpected(s.records, expected, [i \in DOMAIN expected |-> FALSE])[k]
          THEN << T("Helper"), Logf("Missing expected records:\n<diff>"), T("Fail") >>
          ELSE << T("Helper") >>)

\* A goroutine outside every Spy method.
NoSpyCall == [pc |-> "idle", call |-> SpyCallOf("", "nil", "", << >>), outputs |-> << >>]

-----------------------------------------------------------------------------
(* check.Eventually: the state of one call                                 *)

\* The failures the retry counter tells apart; above it only its parity is
\* kept (errs is indexed by retries % 2).
MaxRetries == 3

\* retries++
Incr(retries) == IF retries < MaxRetries THEN retries + 1 ELSE retries - 1

\* errors.Join(errs[0], errs[1]) printed with %s: nil errors are dropped, the
\* others joined by a newline, and a nil result prints as %!s(<nil>).
JoinedErrs(errs) ==
    CASE errs[1] = NoErr /\ errs[2] = NoErr -> "%!s(<nil>)"
      [] errs[1] = NoErr -> errs[2]
      [] errs[2] = NoErr -> errs[1]
      [] OTHER -> errs[1] \o "\n" \o errs[2]

\* The two messages; the elapsed time is left out.
PassedMsg(retries) ==
    "check passed in <elapsed> with " \o ToString(retries) \o " retries"
ExpiredMsg(retries, errs) ==
    "check did not pass in <elapsed> with " \o ToString(retries)
        \o " retries and now context is expired, last two errors: " \o JoinedErrs(errs)

\* Before the call.  timer is the timer named ticker: armed until it fires,
\* with the duration it was set to; tickerC and tryC count the values the two
\* channels hold.  invoked, failed and passed count what check did, and
\* fired is the duration of the timer that fired since the last invocation
\* of check (-1 if none did).
NoEventually ==
    [pc |-> "none", ctxDone |-> FALSE, timeBetweenRetries |-> 0,
     timer |-> [armed |-> FALSE, d |-> 0], tickerC |-> 0, tryC |-> 0,
     errs |-> << NoErr, NoErr >>, retries |-> 0,
     result |-> FALSE, msg |-> "",
     invoked |-> 0, failed |-> 0, passed |-> 0, fired |-> -1]

-----------------------------------------------------------------------------
(* test.Context: the state of one call                                     *)

\* Times and durations are counted in milliseconds; the zero time.Time is 0.
Second == 1000

\* A context.Context: its name, its deadline (0 when it has none), and
\* whether it is the child a With... call built.
Background == [name |-> "context.Background", deadline |-> 0, derived |-> FALSE]

\* context.WithDeadline(parent, d): a child of parent whose deadline is the
\* earlier of parent's and d, and the function that cancels that child.
WithDeadline(parent, d) ==
    [ctx    |-> [name |-> parent.name \o ".WithDeadline", derived |-> TRUE,
                 deadline |-> IF parent.deadline # 0 /\ parent.deadline < d
                              THEN parent.deadline ELSE d],
     cancel |-> "cancel of " \o parent.name \o ".WithDeadline"]

\* int64(float64(d) * 0.01): the conversion truncates toward zero.
OnePercent(d) == IF d >= 0 THEN d \div 100 ELSE -((-d) \div 100)

\* The deadline Context gives the derived context when time.Since(deadline)
\* is read at the instant now.
CleanDeadline(deadline, now) ==
    LET panicTimeout == deadline - now
        cleanDuration == IF OnePercent(panicTimeout) > Second THEN Second
                         ELSE OnePercent(panicTimeout)
    IN  deadline - cleanDuration

\* A call of a TestingT method made by Context, with its argument if any.
TCall(method, input) == [method |-> method, input |-> input]

\* Before the call.  t is the TestingT: the context and the deadline it
\* reports.  ctx, deadline, isset and cancel are the locals of Context, calls
\* the TestingT methods it called, in order, and result what it returned.
NoContextCall ==
    [pc |-> "none", t |-> [context |-> Background, deadline |-> 0],
     ctx |-> Background, deadline |-> 0, isset |-> FALSE, cancel |-> "",
     calls |-> << >>, result |-> Background]

-----------------------------------------------------------------------------
(* Package logging: slogHandler, its slices and the line it logs           *)

\* A slog.Attr with a string value, and the zero Attr of an unused slot.
Attr(key, value) == [Key |-> key, Value |-> value]
ZeroAttr == Attr("", "")

\* A slice: the backing array it points into (0 for a nil slice), its length
\* and its capacity.  The heap keeps the backing arrays of the []slog.Attr
\* and of the []string slices, each array as long as its capacity.
NilSlice == [arr |-> 0, len |-> 0, cap |-> 0]
EmptyHeap == [attrs |-> << >>, groups |-> << >>]

\* The elements a slice shows.
Elems(arrays, sl) == [i \in 1..sl.len |-> arrays[sl.arr][i]]

\* The capacity append gives the array it allocates when cap(old) is too
\* small for the needed length (below 256 elements the capacity doubles).
GrowCap(oldCap, needed) == IF needed > 2 * oldCap THEN needed ELSE 2 * oldCap

\* append(sl, xs...): the new elements are written behind sl in its own
\* backing array when its capacity allows, and in a new array otherwise.
\* zero fills the unused slots of a new array.
AppendSlice(arrays, sl, xs, zero) ==
    IF Len(xs) = 0 THEN [arrays |-> arrays, slice |-> sl]
    ELSE IF sl.len + Len(xs) <= sl.cap
    THEN [arrays |-> [arrays EXCEPT ![sl.arr] =
                        [i \in 1..sl.cap |->
                            IF i > sl.len /\ i <= sl.len + Len(xs)
                            THEN xs[i - sl.len] ELSE @[i]]],
          slice  |-> [sl EXCEPT !.len = sl.len + Len(xs)]]
    ELSE [arrays |-> Append(arrays,
                        [i \in 1..GrowCap(sl.cap, sl.len + Len(xs)) |->
                            IF i <= sl.len THEN arrays[sl.arr][i]
                            ELSE IF i <= sl.len + Len(xs) THEN xs[i - sl.len]
                            ELSE zero]),
          slice  |-> [arr |-> Len(arrays) + 1, len |-> sl.len + Len(xs),
                      cap |-> GrowCap(sl.cap, sl.len + Len(xs))]]

\* strings.Join(elems, sep)
RECURSIVE StringsJoin(_, _)
StringsJoin(elems, sep) ==
    IF Len(elems) = 0 THEN ""
    ELSE IF Len(elems) = 1 THEN elems[1]
    ELSE elems[1] \o sep \o StringsJoin(Tail(elems), sep)

\* fmt.Sprintf("%s=%s", strings.Join(append(groups, key), "."), value)
AttrText(groups, key, value) ==
    StringsJoin(Append(groups, key), ".") \o "=" \o value

\* The line Handle passes to t.Logf for a handler showing groups and attrs.
HandleLine(groups, attrs, record) ==
    StringsJoin(<< AttrText(groups, "level", record.Level) >>
                    \o [i \in 1..Len(attrs) |->
                            AttrText(groups, attrs[i].Key, attrs[i].Value)]
                    \o [i \in 1..Len(record.Attrs) |->
                            AttrText(groups, record.Attrs[i].Key, record.Attrs[i].Value)],
                " ")
        \o " " \o record.Message

\* The keys Handle appends to h.groups one after the other: each append
\* that finds spare capacity writes its key in the slot behind h.groups.
HandleKeys(attrs, record) ==
    << "level" >> \o [i \in 1..Len(attrs) |-> attrs[i].Key]
                 \o [i \in 1..Len(record.Attrs) |-> record.Attrs[i].Key]

\* A slog.Record: its level, its message and its attributes.
Record(level, message, attrs) == [Level |-> level, Message |-> message, Attrs |-> attrs]

\* No Handle call yet.
NoLogged == [h |-> 0, record |-> Record("", "", << >>), line |-> ""]

\* A call that built a handler from its parent.
ChainCall(op, attrs, name) == [op |-> op, attrs |-> attrs, name |-> name]

\* The attributes and the group path the calls of a chain add up to.
RECURSIVE ChainAttrs(_)
ChainAttrs(chain) ==
    IF Len(chain) = 0 THEN << >>
    ELSE (IF chain[1].op = "WithAttrs" THEN chain[1].attrs ELSE << >>)
            \o ChainAttrs(Tail(chain))
RECURSIVE ChainGroups(_)
ChainGroups(chain) ==
    IF Len(chain) = 0 THEN << >>
    ELSE (IF chain[1].op = "WithGroup" THEN << chain[1].name >> ELSE << >>)
            \o ChainGroups(Tail(chain))

-----------------------------------------------------------------------------
(* The assertion surface driven by one test goroutine                      *)

\* How many maps the loader may allocate in one run of the model.
MaxLoads == 3

Goroutines == {"g1", "g2"}

\* dir and expr are the inputs of the calls of the internal functions.
\* strict and expected are the inputs of Spy.ExpectRecords, and actual the
\* spy.records it read.
NoCall == [op |-> "none", file |-> "", line |-> 0, result |-> FALSE,
           msgAndArgs |-> << >>, index |-> 0, outcome |-> "ok", enabled |-> FALSE,
           dir |-> "", expr |-> NilNode, strict |-> FALSE, expected |-> << >>,
           actual |-> << >>]

NoRet == [kind |-> "none", bool |-> FALSE, msg |-> "", err |-> NoErr,
          expr |-> NilNode, file |-> "nil", pkg |-> "nil"]

\* A goroutine's GetPackageAST call: the directory, what it returned, whether it
\* found the directory cached or invoked the loader and with what outcome, and
\* the cache as it was when the call took the lock.  init tells that the call
\* was made by InitPackageASTCache, and panic holds the value it panicked with.
NoRes == [dir |-> "", pkgs |-> NilPkgs, err |-> NoErr, loaded |-> FALSE, hit |-> FALSE,
          outcome |-> "", before |-> NilCache, init |-> FALSE, panic |-> ""]

\* A directory with no Go package in it.
DirMissing == "/src/missing"

CacheDirs == {DirA, DirB, DirMissing}

\* warm: the directories InitPackageASTCache returned normally for.
NoHist == [loads |-> [d \in CacheDirs |-> 0], failed |-> {}, warm |-> {}]

Enabled == SuccessMessageEnabled \/ flagEnableSuccessMessage

CacheVarsUnchanged ==
    UNCHANGED << cacheVars, doubleVars, checkVars, contextVars, slogVars >>

Init ==
    /\ astPkgPathToPkg = NilCache
    /\ astLock = "free"
    /\ nextId = 1
    /\ SuccessMessageEnabled = FALSE
    /\ flagEnableSuccessMessage \in BOOLEAN
    /\ call = NoCall
    /\ records = << >>
    /\ ret = NoRet
    /\ trace = << >>
    /\ fromBool = NoFromBool
    /\ pc = [g \in Goroutines |-> "idle"]
    /\ req = [g \in Goroutines |-> ""]
    /\ res = [g \in Goroutines |-> NoRes]
    /\ hist = NoHist
    /\ spy = NilSpy
    /\ spc = [g \in Goroutines |-> NoSpyCall]
    /\ spyCalls = << >>
    /\ ev = NoEventually
    /\ tc = NoContextCall
    /\ heap = EmptyHeap
    /\ handlers = << >>
    /\ logged = NoLogged

\* The test (or its TestMain) sets test.SuccessMessageEnabled.
SetSuccessMessageEnabled(b) ==
    /\ SuccessMessageEnabled' = b
    /\ UNCHANGED << astPkgPathToPkg, nextId, flagEnableSuccessMessage, call, records,
                    ret, trace, fromBool >>
    /\ CacheVarsUnchanged

\* The loader's outcome is an input of a call only when the call's directory is
\* not cached yet.
LoaderOutcomes(pkgDir) ==
    IF CacheHas(astPkgPathToPkg, pkgDir) THEN {"ok"} ELSE LoadOutcomes

\* The bookkeeping shared by the calls below: out is what the call left behind.
Finish(c, out) ==
    /\ out.cache # astPkgPathToPkg => nextId <= MaxLoads
    /\ call' = c
    /\ records' = out.records
    /\ ret' = out.ret
    /\ trace' = out.trace
    /\ fromBool' = out.fb
    /\ astPkgPathToPkg' = out.cache
    /\ nextId' = IF out.cache # astPkgPathToPkg THEN nextId + 1 ELSE nextId
    /\ UNCHANGED << SuccessMessageEnabled, flagEnableSuccessMessage >>
    /\ CacheVarsUnchanged

\* The test calls test.Assert(t, result, msgAndArgs...) at a call site, with a
\* fresh TestingT.
CallAssert(site, result, msgAndArgs, outcome) ==
    /\ site.fn = "Assert"
    /\ astLock = "free"
    /\ outcome \in LoaderOutcomes(Dir(site.file))
    /\ \E out \in { test_Assert(result, msgAndArgs, Enabled, Frame(site), astPkgPathToPkg,
                                 Load(Dir(site.file), outcome), nextId) } :
        Finish([NoCall EXCEPT !.op = "Assert", !.file = site.file, !.line = site.line,
                              !.result = result, !.msgAndArgs = msgAndArgs,
                              !.outcome = outcome, !.enabled = Enabled], out)

\* The test calls test.Require(t, result, msgAndArgs...) at a call site, with a
\* fresh TestingT.
CallRequire(site, result, msgAndArgs, outcome) ==
    /\ site.fn = "Require"
    /\ astLock = "free"
    /\ outcome \in LoaderOutcomes(Dir(site.file))
    /\ \E out \in { test_Require(result, msgAndArgs, Enabled, Frame(site), astPkgPathToPkg,
                                  Load(Dir(site.file), outcome), nextId) } :
        Finish([NoCall EXCEPT !.op = "Require", !.file = site.file, !.line = site.line,
                              !.result = result, !.msgAndArgs = msgAndArgs,
                              !.outcome = outcome, !.enabled = Enabled], out)

\* The stack while a direct call of FromBool runs.
FromBoolStack ==
    << [file |-> "message/from_bool.go", line |-> 304], FromBoolSite >> \o RunnerFrames

\* The test calls message.FromBool(callerStackIndex, result) directly.
CallFromBool(callerStackIndex, result, outcome) ==
    /\ astLock = "free"
    /\ outcome \in LoaderOutcomes(Dir(FromBoolSite.file))
    /\ \E fb \in { FromBool(callerStackIndex, result, FromBoolStack, astPkgPathToPkg,
                            Load(Dir(FromBoolSite.file), outcome), nextId) } :
        Finish([NoCall EXCEPT !.op = "FromBool", !.file = FromBoolSite.file,
                              !.line = FromBoolSite.line, !.result = result,
                              !.index = callerStackIndex, !.outcome = outcome],
               [records |-> << >>,
                ret |-> [NoRet EXCEPT !.kind = IF fb.panic THEN "panic" ELSE "return",
                                      !.msg = fb.msg, !.err = fb.err],
                cache |-> fb.cache,
                trace |-> fb.trace,
                fb |-> FromBoolSeen(fb)])

Next ==
    \/ \E b \in BOOLEAN : SetSuccessMessageEnabled(b)
    \/ \E site \in Sites, result \in BOOLEAN, outcome \in LoadOutcomes :
        \E msgAndArgs \in site.msgs : CallAssert(site, result, msgAndArgs, outcome)
    \/ \E site \in Sites, result \in BOOLEAN, outcome \in LoadOutcomes :
        \E msgAndArgs \in site.msgs : CallRequire(site, result, msgAndArgs, outcome)
    \/ \E i \in StackIndexes, result \in BOOLEAN, outcome \in LoadOutcomes :
        CallFromBool(i, result, outcome)

Spec == Init /\ [][Next]_vars

-----------------------------------------------------------------------------
(* The package-AST cache called from several goroutines, one step per      *)
(* statement that takes, reads, writes or releases shared state            *)

AssertVarsUnchanged ==
    UNCHANGED << SuccessMessageEnabled, flagEnableSuccessMessage, call, records, ret,
                 trace, fromBool, doubleVars, checkVars, contextVars, slogVars >>

\* A goroutine calls code.GetPackageAST(pkgDir).
CallGetPackageAST(g, pkgDir) ==
    /\ pc[g] = "idle"
    /\ pc' = [pc EXCEPT ![g] = "lock"]
    /\ req' = [req EXCEPT ![g] = pkgDir]
    /\ res' = [res EXCEPT ![g] = [NoRes EXCEPT !.dir = pkgDir]]
    /\ UNCHANGED << astPkgPathToPkg, astLock, nextId, hist >>
    /\ AssertVarsUnchanged

\* The goroutine that runs TestMain, where InitPackageASTCache is called from.
MainGoroutine == "g1"

\* TestMain calls code.InitPackageASTCache(pkgDir), which calls GetPackageAST.
CallInitPackageASTCache(g, pkgDir) ==
    /\ g = MainGoroutine
    /\ pc[g] = "idle"
    /\ pc' = [pc EXCEPT ![g] = "lock"]
    /\ req' = [req EXCEPT ![g] = pkgDir]
    /\ res' = [res EXCEPT ![g] = [NoRes EXCEPT !.dir = pkgDir, !.init = TRUE]]
    /\ UNCHANGED << astPkgPathToPkg, astLock, nextId, hist >>
    /\ AssertVarsUnchanged

\* Mutation: the lock is taken whoever holds it.
LockUnguarded(g) ==
    /\ pc[g] = "lock"
    /\ astLock' = g
    /\ pc' = [pc EXCEPT ![g] = "lookup"]
    /\ res' = [res EXCEPT ![g].before = astPkgPathToPkg]
    /\ UNCHANGED << astPkgPathToPkg, nextId, req, hist >>
    /\ AssertVarsUnchanged

\* line 107: _astLock.Lock()
Lock(g) ==
    /\ pc[g] = "lock"
    /\ astLock = "free"
    /\ astLock' = g
    /\ pc' = [pc EXCEPT ![g] = "lookup"]
    /\ res' = [res EXCEPT ![g].before = astPkgPathToPkg]
    /\ UNCHANGED << astPkgPathToPkg, nextId, req, hist >>
    /\ AssertVarsUnchanged

\* lines 110-112: the lookup, and the return of what is cached.
Lookup(g) ==
    /\ pc[g] = "lookup"
    /\ IF CacheHas(astPkgPathToPkg, req[g])
       THEN /\ res' = [res EXCEPT ![g].pkgs = astPkgPathToPkg.m[req[g]], ![g].hit = TRUE]
            /\ pc' = [pc EXCEPT ![g] = "unlock"]
       ELSE /\ res' = res
            /\ pc' = [pc EXCEPT ![g] = "parse"]
    /\ hist' = [hist EXCEPT !.failed = @ \ {req[g]}]
    /\ UNCHANGED << astPkgPathToPkg, astLock, nextId, req >>
    /\ AssertVarsUnchanged

\* lines 114-117: the loader runs, with the lock held; its error is returned.
Parse(g, outcome) ==
    /\ pc[g] = "parse"
    /\ \E parsed \in { ParsePackageAST(Load(req[g], outcome), nextId) } :
        IF parsed.err # NoErr
        THEN /\ res' = [res EXCEPT ![g].loaded = TRUE, ![g].outcome = outcome,
                                   ![g].pkgs = NilPkgs,
                                   ![g].err = "unable to parse caller package \""
                                                \o req[g] \o "\": " \o parsed.err]
             /\ pc' = [pc EXCEPT ![g] = "unlock"]
             /\ hist' = [hist EXCEPT !.failed = @ \cup {req[g]}]
             /\ nextId' = nextId
        ELSE /\ nextId <= MaxLoads
             /\ res' = [res EXCEPT ![g].loaded = TRUE, ![g].outcome = outcome,
                                   ![g].pkgs = parsed.pkgs]
             /\ pc' = [pc EXCEPT ![g] = "store"]
             /\ hist' = [hist EXCEPT !.loads[req[g]] = @ + 1]
             /\ nextId' = nextId + 1
    /\ UNCHANGED << astPkgPathToPkg, astLock, req >>
    /\ AssertVarsUnchanged

\* lines 119-128: the mapping is stored and returned.
Store(g) ==
    /\ pc[g] = "store"
    /\ astPkgPathToPkg' = CacheStore(astPkgPathToPkg, req[g], res[g].pkgs)
    /\ pc' = [pc EXCEPT ![g] = "unlock"]
    /\ UNCHANGED << astLock, nextId, req, res, hist >>
    /\ AssertVarsUnchanged

\* line 108: the deferred _astLock.Unlock(), as the call returns (to the test,
\* or to InitPackageASTCache).
Unlock(g) ==
    /\ pc[g] = "unlock"
    /\ astLock' = "free"
    /\ pc' = [pc EXCEPT ![g] = IF res[g].init THEN "init" ELSE "idle"]
    /\ UNCHANGED << astPkgPathToPkg, nextId, req, res, hist >>
    /\ AssertVarsUnchanged

\* InitPackageASTCache lines 95-97: the panic on an error (the test recovers
\* it), or the return.
InitReturn(g) ==
    /\ pc[g] = "init"
    /\ \E out \in { InitPackageASTCache(res[g].err) } :
        /\ res' = [res EXCEPT ![g].panic = out.reason]
        /\ hist' = [hist EXCEPT !.warm = IF out.panicked THEN @ ELSE @ \cup {req[g]}]
    /\ pc' = [pc EXCEPT ![g] = "idle"]
    /\ UNCHANGED << astPkgPathToPkg, astLock, nextId, req >>
    /\ AssertVarsUnchanged

NextCache ==
    \/ \E g \in Goroutines, pkgDir \in CacheDirs : CallGetPackageAST(g, pkgDir)
    \/ \E g \in Goroutines, pkgDir \in CacheDirs : CallInitPackageASTCache(g, pkgDir)
    \/ \E g \in Goroutines : Lock(g)
    \/ \E g \in Goroutines : Lookup(g)
    \/ \E g \in Goroutines, outcome \in LoadOutcomes : Parse(g, outcome)
    \/ \E g \in Goroutines : Store(g)
    \/ \E g \in Goroutines : Unlock(g)
    \/ \E g \in Goroutines : InitReturn(g)

SpecCache == Init /\ [][NextCache]_vars

-----------------------------------------------------------------------------
(* The internal functions called directly, as their unit tests call them   *)

\* The caller files and lines handed to GetCallerCallExpr: the files of the
\* packages, one left out of the build, one that does not exist, and lines
\* with and without a call.
UnitFiles == {FileA, FileB, FileTagged, "./notexisting.go"}
UnitLines == {5, 7, 10, 12, 13, 20, 21, 30, 1043}

\* What the calls below leave alone.
UnitVarsUnchanged ==
    /\ UNCHANGED << astPkgPathToPkg, nextId, SuccessMessageEnabled,
                    flagEnableSuccessMessage, records, trace, fromBool >>
    /\ CacheVarsUnchanged

\* pkgs := ParsePackageAST(ctx, pkgDir), then
\* GetCallerCallExpr(pkgs, callerFile, callerLine).
CallGetCallerCallExpr(pkgDir, callerFile, callerLine) ==
    /\ \E parsed \in { ParsePackageAST(Load(pkgDir, "ok"), nextId) } :
        /\ parsed.err = NoErr
        /\ \E found \in { GetCallerCallExpr(parsed.pkgs, callerFile, callerLine) } :
            ret' = [NoRet EXCEPT !.kind = "return", !.err = found.err, !.expr = found.expr,
                                 !.file = found.file, !.pkg = found.pkg]
    /\ call' = [NoCall EXCEPT !.op = "GetCallerCallExpr", !.dir = pkgDir,
                              !.file = callerFile, !.line = callerLine]
    /\ UnitVarsUnchanged

\* The expressions the rewriter is called on, as getTestingExpr hands them to
\* it with the type information of their package (all start on line 1).

\* name() for a function of the test package with these results
Call0(name, results) ==
    CallExpr(FuncIdent(name, 1, LocalPkg, TSig(results)), << >>,
             IF Len(results) = 1 THEN results[1] ELSE TTuple)

\* s.name for a field of a local struct
Field(name, typ) == SelectorExpr(VarIdent("s", 1, TPtrT), VarIdent(name, 1, typ))

TChan == [k |-> "Chan", kind |-> "", str |-> "chan bool", results |-> << >>]

\* Comparisons against nil, against booleans (constants or not), of numbers and
\* of two errors.
Comparisons ==
    { BinaryExpr(x, op, NilIdent(1), "none") :
        x \in { VarIdent("err", 1, TError), Call0("run", << TError >>),
                Call0("find", << TPtrT >>), Field("err", TError),
                ParenExpr(Call0("run", << TError >>), 1) },
        op \in {"==", "!="} }
    \cup { BinaryExpr(x, op, y, "none") :
        x \in { VarIdent("b", 1, TBool), Call0("f", << TBool >>), Field("ok", TBool) },
        y \in { TrueIdent(1), FalseIdent(1), ConstIdent("enabled", 1, TBool, "true"),
                VarIdent("b2", 1, TBool), Call0("g", << TBool >>) },
        op \in {"==", "!="} }
    \cup { BinaryExpr(x, op, y, "none") :
        x \in { VarIdent("n1", 1, TInt), Call0("count", << TInt >>) },
        y \in { VarIdent("n2", 1, TInt), BasicLit("42", 1, TInt) },
        op \in {"==", "!=", ">", ">=", "<", "<="} }
    \cup { BinaryExpr(VarIdent("err", 1, TError), op, VarIdent("target", 1, TError), "none") :
        op \in {"==", "!="} }

\* Boolean expressions that are no binary expression.
Atoms ==
    { VarIdent("ok", 1, TBool), TrueIdent(1), ConstIdent("enabled", 1, TBool, "true"),
      Call0("f", << TBool >>), ErrorsIs(1), Field("ok", TBool),
      [ErrorsIs(1) EXCEPT !.Args = << Call0("run", << TError >>), Field("EOF", TError) >>],
      IndexExpr(VarIdent("flags", 1, TSlice), BasicLit("0", 1, TInt), TBool),
      CallExpr(FuncLit("func() bool { return true }", 1, TSig(<< TBool >>), << >>),
               << >>, TBool),
      CallExpr(TypeIdent("bool", 1), << VarIdent("x", 1, TNamedBool) >>, TBool) }

\* x && y and x || y
Logicals ==
    { BinaryExpr(x, op, y, "none") :
        x \in { VarIdent("ok", 1, TBool), Call0("f", << TBool >>),
                BinaryExpr(VarIdent("err", 1, TError), "==", NilIdent(1), "none"),
                BinaryExpr(VarIdent("n1", 1, TInt), ">", VarIdent("n2", 1, TInt), "none"),
                IndexExpr(VarIdent("flags", 1, TSlice), BasicLit("0", 1, TInt), TBool),
                BinaryExpr(VarIdent("b", 1, TBool), "==", VarIdent("b2", 1, TBool), "none") },
        y \in { VarIdent("ok", 1, TBool), Call0("f", << TBool >>),
                BinaryExpr(VarIdent("err", 1, TError), "==", NilIdent(1), "none"),
                BinaryExpr(VarIdent("n1", 1, TInt), ">", VarIdent("n2", 1, TInt), "none"),
                IndexExpr(VarIdent("flags", 1, TSlice), BasicLit("0", 1, TInt), TBool),
                BinaryExpr(VarIdent("b", 1, TBool), "==", VarIdent("b2", 1, TBool), "none") },
        op \in {"&&", "||"} }

\* (x)
Parens ==
    { ParenExpr(x, 1) :
        x \in Atoms \cup Comparisons \cup { l \in Logicals : l.X = VarIdent("ok", 1, TBool) } }

\* <-x
Arrows ==
    { UnaryExpr("<-", x, 1, TBool) :
        x \in { VarIdent("ch", 1, TChan), Call0("done", << TChan >>), Field("ch", TChan),
                ParenExpr(VarIdent("ch", 1, TChan), 1),
                IndexExpr(VarIdent("chans", 1, TSlice), BasicLit("0", 1, TInt), TChan) } }

\* !x and !!x
Nots ==
    { UnaryExpr("!", x, 1, TBool) : x \in Atoms \cup Parens \cup Arrows }
    \cup { UnaryExpr("!", UnaryExpr("!", x, 1, TBool), 1, TBool) : x \in Atoms }

Subjects == Comparisons \cup Atoms \cup Logicals \cup Parens \cup Arrows \cup Nots

\* What a call of customizeASTExprRepr leaves in ret.
ReprReturn(repr) ==
    [NoRet EXCEPT !.kind = IF repr.panic THEN "panic" ELSE "return",
                  !.msg = repr.msg, !.err = repr.err]

\* customizeASTExprRepr(pkg, result, expr)
CallCustomizeASTExprRepr(result, expr) ==
    /\ ret' = ReprReturn(customizeASTExprRepr(result, expr))
    /\ call' = [NoCall EXCEPT !.op = "customizeASTExprRepr", !.result = result,
                              !.expr = expr]
    /\ UnitVarsUnchanged

NextUnit ==
    \/ \E pkgDir \in CacheDirs, callerFile \in UnitFiles, callerLine \in UnitLines :
        CallGetCallerCallExpr(pkgDir, callerFile, callerLine)
    \/ \E result \in BOOLEAN, expr \in Subjects : CallCustomizeASTExprRepr(result, expr)

SpecUnit == Init /\ [][NextUnit]_vars

-----------------------------------------------------------------------------
(* A Spy called from several goroutines, one step per statement that takes *)
(* or releases spy.m, calls the underlying TestingT or writes the Spy      *)

\* How many Spy method calls one run of the model makes.
MaxSpyCalls == 3

\* The contexts and deadlines of the underlying TestingT.
BackgroundCtx == AnyV("context.backgroundCtx", "context.Background")
TestCtx       == AnyV("*context.cancelCtx", "context.Background.WithCancel")
TestDeadline  == "2026-01-01 12:00:00"

Underlyings ==
    { NewFake(BackgroundCtx, ZeroTime), NewFake(TestCtx, TestDeadline),
      TestingT(TestCtx, ZeroTime) }

\* The method calls made on the Spy.
SpyCalls ==
    { SpyCallOf(m, "nil", "", << >>) : m \in {"Helper", "Fail", "FailNow", "Context", "Deadline"} }
    \cup { SpyCallOf("Cleanup", f, "", << >>) : f \in {"nil", "cleanup"} }
    \cup { SpyCallOf("Logf", "nil", "hello %s", << StrV("world") >>),
           SpyCallOf("Logf", "nil", "bye", << >>) }

\* What the Spy steps leave alone.
SpyVarsUnchanged ==
    UNCHANGED << astPkgPathToPkg, nextId, SuccessMessageEnabled, flagEnableSuccessMessage,
                 trace, fromBool, cacheVars, checkVars, contextVars, slogVars >>

\* spiedT := NewSpy(underlyingT)
CallNewSpy(underlyingT) ==
    /\ spy = NilSpy
    /\ spy' = NewSpy(underlyingT)
    /\ UNCHANGED << spc, spyCalls, call, records, ret >>
    /\ SpyVarsUnchanged

\* The Spy method calls begun so far.
SpyCallsBegun ==
    Len(spyCalls) + Cardinality({ g \in Goroutines : spc[g].pc = "lock" })

\* A goroutine calls a method of the Spy; max bounds the calls of the run.
SpyCall(g, c, max) ==
    /\ spy.underlyingT.kind # "nil"
    /\ spc[g].pc = "idle"
    /\ SpyCallsBegun < max
    /\ spc' = [spc EXCEPT ![g] = [pc |-> "lock", call |-> c, outputs |-> << >>]]
    /\ UNCHANGED << spy, spyCalls, call, records, ret >>
    /\ SpyVarsUnchanged

\* A Spy whose methods do not wait for spy.m.
SpyLockUnguarded(g) ==
    /\ spc[g].pc = "lock"
    /\ spy' = [spy EXCEPT !.m = g]
    /\ spyCalls' = Append(spyCalls, [g |-> g, call |-> spc[g].call, status |-> "locked"])
    /\ spc' = [spc EXCEPT ![g].pc = "delegate"]
    /\ UNCHANGED << call, records, ret >>
    /\ SpyVarsUnchanged

\* spy.m.Lock()
SpyLock(g) ==
    /\ spc[g].pc = "lock"
    /\ spy.m = "free"
    /\ spy' = [spy EXCEPT !.m = g]
    /\ spyCalls' = Append(spyCalls, [g |-> g, call |-> spc[g].call, status |-> "locked"])
    /\ spc' = [spc EXCEPT ![g].pc = "delegate"]
    /\ UNCHANGED << call, records, ret >>
    /\ SpyVarsUnchanged

\* The position in spyCalls of the call g is making.
CallIndex(g) ==
    CHOOSE i \in DOMAIN spyCalls :
        /\ spyCalls[i].g = g
        /\ \A j \in DOMAIN spyCalls : spyCalls[j].g = g => j <= i

\* spy.underlyingT.<Method>(...): the method returns, or unwinds the goroutine
\* through the deferred Unlock.
SpyDelegate(g) ==
    /\ spc[g].pc = "delegate"
    /\ \E u \in { Underlying(spy.underlyingT, spc[g].call.method) } :
        /\ spy' = [spy EXCEPT !.delegated = Append(@, spc[g].call.method)]
        /\ spc' = [spc EXCEPT ![g].pc = IF u.returns THEN "record" ELSE "unwind",
                              ![g].outputs = u.outputs]
        /\ spyCalls' = [spyCalls EXCEPT ![CallIndex(g)].status =
                            IF u.returns THEN "delegated" ELSE "unwound"]
    /\ UNCHANGED << call, records, ret >>
    /\ SpyVarsUnchanged

\* spy.records = append(spy.records, ...), and for Logf, Fail and FailNow the
\* statement that follows it.
SpyRecord(g) ==
    /\ spc[g].pc = "record"
    /\ spy' = Recorded(spy, spc[g].call, spc[g].outputs)
    /\ spc' = [spc EXCEPT ![g].pc = "unlock"]
    /\ spyCalls' = [spyCalls EXCEPT ![CallIndex(g)].status = "recorded"]
    /\ UNCHANGED << call, records, ret >>
    /\ SpyVarsUnchanged

\* The deferred spy.m.Unlock(): the method returns, or the goroutine is gone.
SpyUnlock(g) ==
    /\ spc[g].pc \in {"unlock", "unwind"}
    /\ spy' = [spy EXCEPT !.m = "free"]
    /\ spc' = [spc EXCEPT ![g].pc = IF spc[g].pc = "unlock" THEN "idle" ELSE "exited"]
    /\ UNCHANGED << spyCalls, call, records, ret >>
    /\ SpyVarsUnchanged

NextSpy ==
    \/ \E underlyingT \in Underlyings : CallNewSpy(underlyingT)
    \/ \E g \in Goroutines, c \in SpyCalls : SpyCall(g, c, MaxSpyCalls)
    \/ \E g \in Goroutines : SpyLock(g)
    \/ \E g \in Goroutines : SpyDelegate(g)
    \/ \E g \in Goroutines : SpyRecord(g)
    \/ \E g \in Goroutines : SpyUnlock(g)

SpecSpy == Init /\ [][NextSpy]_vars

-----------------------------------------------------------------------------
(* A Spy driven by one test goroutine that then checks its records         *)

\* The Spy method calls made before the expectations are checked.
MaxExpectCalls == 2

\* The records a test expects.
ExpectableRecords ==
    { SpyTestingTRecord(m, << >>, << >>) : m \in {"Helper", "Fail"} }
    \cup { SpyTestingTRecord("Logf", << StrV("hello %s"), SliceAnyV(<< StrV("world") >>) >>,
                             << >>),
           SpyTestingTRecord("Logf", << StrV("hello %s"), SpyTestingTRecordIgnoreParam >>,
                             << >>),
           SpyTestingTRecord("Logf", << StrV("bye"), SliceAnyV(<< >>) >>, << >>),
           SpyTestingTRecord("Cleanup", << SpyTestingTRecordIgnoreParam >>, << >>),
           SpyTestingTRecord("Cleanup", << FuncV("nil") >>, << >>) }

ExpectedLists ==
    { << >> } \cup { << e >> : e \in ExpectableRecords }
    \cup { << e1, e2 >> : e1 \in ExpectableRecords, e2 \in ExpectableRecords }

\* The test goroutine calls spiedT.ExpectRecords(t, strict, expected...) with
\* a fresh t; it reads the Spy under spy.m.RLock().
CallExpectRecords(strict, expected) ==
    /\ spy.underlyingT.kind # "nil"
    /\ spc[MainGoroutine].pc = "idle"
    /\ spy.m = "free"
    /\ call' = [NoCall EXCEPT !.op = "ExpectRecords", !.strict = strict,
                              !.expected = expected, !.actual = spy.records]
    /\ records' = ExpectRecords(spy, strict, expected)
    /\ ret' = [NoRet EXCEPT !.kind = "return"]
    /\ UNCHANGED doubleVars
    /\ SpyVarsUnchanged

NextExpect ==
    \/ CallNewSpy(NewFake(BackgroundCtx, ZeroTime))
    \/ \E c \in SpyCalls : SpyCall(MainGoroutine, c, MaxExpectCalls)
    \/ SpyLock(MainGoroutine)
    \/ SpyDelegate(MainGoroutine)
    \/ SpyRecord(MainGoroutine)
    \/ SpyUnlock(MainGoroutine)
    \/ \E strict \in BOOLEAN, expected \in ExpectedLists :
        CallExpectRecords(strict, expected)

SpecExpect == Init /\ [][NextExpect]_vars

-----------------------------------------------------------------------------
(* check.Eventually: one step per select case, plus the steps of its       *)
(* environment (the context ends, the timer fires, check returns)          *)

\* The durations passed as timeBetweenRetries (milliseconds).
RetryDelays == {0, 10}

\* The errors check returns.
CheckErrors == {"boom 0", "always fails"}

EventuallyVarsUnchanged ==
    UNCHANGED << astPkgPathToPkg, nextId, SuccessMessageEnabled, flagEnableSuccessMessage,
                 call, records, ret, trace, fromBool, cacheVars, doubleVars,
                 contextVars, slogVars >>

\* Eventually(ctx, t, check, timeBetweenRetries) up to the for loop: the timer
\* is created with duration 0; ctx may be done already.
CallEventually(ctxDone, timeBetweenRetries) ==
    /\ ev.pc = "none"
    /\ ev' = [NoEventually EXCEPT !.pc = "select", !.ctxDone = ctxDone,
                                  !.timeBetweenRetries = timeBetweenRetries,
                                  !.timer = [armed |-> TRUE, d |-> 0]]
    /\ EventuallyVarsUnchanged

\* ctx is cancelled or its deadline passes.
CtxDone ==
    /\ ev.pc \in {"select", "check"}
    /\ ~ev.ctxDone
    /\ ev' = [ev EXCEPT !.ctxDone = TRUE]
    /\ EventuallyVarsUnchanged

\* The armed timer fires: a value is sent on ticker.C.
TimerFires ==
    /\ ev.pc \in {"select", "check"}
    /\ ev.timer.armed
    /\ ev' = [ev EXCEPT !.timer.armed = FALSE, !.tickerC = 1, !.fired = ev.timer.d]
    /\ EventuallyVarsUnchanged

\* case <-ctx.Done()
SelectCtxDone ==
    /\ ev.pc = "select"
    /\ ev.ctxDone
    /\ ev' = [ev EXCEPT !.pc = "returned", !.result = FALSE,
                        !.msg = ExpiredMsg(ev.retries, ev.errs)]
    /\ EventuallyVarsUnchanged

\* case <-tryC, up to the call of check(ctx)
SelectTry ==
    /\ ev.pc = "select"
    /\ ev.tryC = 1
    /\ ev' = [ev EXCEPT !.pc = "check", !.tryC = 0, !.invoked = Incr(@),
                        !.fired = -1]
    /\ EventuallyVarsUnchanged

\* An Eventually that keeps retrying after check returned nil.
CheckReturnsKeepsTrying(err) ==
    /\ ev.pc = "check"
    /\ ev' = [ev EXCEPT !.pc = "select",
                        !.errs[(ev.retries % 2) + 1] = IF err # NoErr THEN err ELSE @,
                        !.retries = Incr(@),
                        !.timer = [armed |-> TRUE, d |-> ev.timeBetweenRetries],
                        !.failed = IF err # NoErr THEN Incr(@) ELSE @,
                        !.passed = IF err = NoErr THEN 1 ELSE @]
    /\ EventuallyVarsUnchanged

\* check(ctx) returns err: nil ends the call; an error is kept in errs, counted
\* and followed by ticker.Reset(timeBetweenRetries).
CheckReturns(err) ==
    /\ ev.pc = "check"
    /\ ev' = IF err = NoErr
             THEN [ev EXCEPT !.pc = "returned", !.result = TRUE,
                             !.msg = PassedMsg(ev.retries), !.passed = 1]
             ELSE [ev EXCEPT !.pc = "select",
                             !.errs[(ev.retries % 2) + 1] = err,
                             !.retries = Incr(@),
                             !.timer = [armed |-> TRUE, d |-> ev.timeBetweenRetries],
                             !.failed = Incr(@)]
    /\ EventuallyVarsUnchanged

\* An Eventually whose select refills tryC without waiting for the timer.
SelectTickerSkipsTry ==
    /\ ev.pc = "select"
    /\ ev' = [ev EXCEPT !.tryC = 1]
    /\ EventuallyVarsUnchanged

\* case <-ticker.C: a value is put in tryC unless it is full.
SelectTicker ==
    /\ ev.pc = "select"
    /\ ev.tickerC = 1
    /\ ev' = [ev EXCEPT !.tickerC = 0, !.tryC = 1]
    /\ EventuallyVarsUnchanged

NextEventually ==
    \/ \E ctxDone \in BOOLEAN, d \in RetryDelays : CallEventually(ctxDone, d)
    \/ CtxDone
    \/ TimerFires
    \/ SelectCtxDone
    \/ SelectTry
    \/ \E err \in CheckErrors \cup {NoErr} : CheckReturns(err)
    \/ SelectTicker

SpecEventually == Init /\ [][NextEventually]_vars

\* The scheduling the liveness of Eventually rests on: the timer fires, every
\* invocation of check returns, a select with a ready case proceeds, and a
\* select that finds ctx done again and again takes that case at some point
\* (a select chooses among its ready cases at random).
SpecEventuallyFair ==
    /\ SpecEventually
    /\ WF_vars(TimerFires)
    /\ WF_vars(SelectTry)
    /\ WF_vars(SelectTicker)
    /\ WF_vars(\E err \in CheckErrors \cup {NoErr} : CheckReturns(err))
    /\ SF_vars(SelectCtxDone)

-----------------------------------------------------------------------------
(* test.Context called on a TestingT (specification SpecContext)           *)

\* The deadlines the TestingT reports: none, and one second, one minute and
\* one hour after the start of the test.
Deadlines == {0, 1000, 60000, 3600000}

\* The contexts the TestingT returns: context.Background(), and a context
\* that ends half a second or one minute after the start of the test.
TestContexts ==
    { Background,
      [name |-> "t.Context", deadline |-> 500, derived |-> TRUE],
      [name |-> "t.Context", deadline |-> 60000, derived |-> TRUE] }

\* The instants at which Context reads the clock.
Instants == {0, 1, 2000}

ContextVarsUnchanged ==
    UNCHANGED << astPkgPathToPkg, nextId, SuccessMessageEnabled, flagEnableSuccessMessage,
                 call, records, ret, trace, fromBool, cacheVars, doubleVars, checkVars,
                 slogVars >>

\* Context(t) is called.
CallContext(context, deadline) ==
    /\ tc.pc = "none"
    /\ tc' = [NoContextCall EXCEPT !.pc = "Context",
                                    !.t = [context |-> context, deadline |-> deadline]]
    /\ ContextVarsUnchanged

\* ctx := t.Context()
ContextReadsContext ==
    /\ tc.pc = "Context"
    /\ tc' = [tc EXCEPT !.pc = "Deadline", !.ctx = tc.t.context,
                        !.calls = Append(@, TCall("Context", ""))]
    /\ ContextVarsUnchanged

\* A reading of the deadline that takes it as set whatever t reports.
ContextReadsDeadlineAsSet ==
    /\ tc.pc = "Deadline"
    /\ tc' = [tc EXCEPT !.pc = "WithDeadline",
                        !.deadline = tc.t.deadline, !.isset = TRUE,
                        !.calls = Append(@, TCall("Deadline", ""))]
    /\ ContextVarsUnchanged

\* if deadline, isset := t.Deadline(); isset { ... }: the Fake reports a
\* deadline unless it is the zero time.
ContextReadsDeadline ==
    /\ tc.pc = "Deadline"
    /\ tc' = [tc EXCEPT !.pc = IF tc.t.deadline # 0 THEN "WithDeadline" ELSE "return",
                        !.deadline = tc.t.deadline, !.isset = tc.t.deadline # 0,
                        !.calls = Append(@, TCall("Deadline", ""))]
    /\ ContextVarsUnchanged

\* The deadline is brought forward by 1% of the time left, one second at
\* most, and ctx, cancel = context.WithDeadline(ctx, deadline).
ContextDerives(now) ==
    /\ tc.pc = "WithDeadline"
    /\ tc' = [tc EXCEPT !.pc = "Cleanup",
                        !.deadline = CleanDeadline(tc.deadline, now),
                        !.ctx = WithDeadline(tc.ctx, CleanDeadline(tc.deadline, now)).ctx,
                        !.cancel = WithDeadline(tc.ctx, CleanDeadline(tc.deadline, now)).cancel]
    /\ ContextVarsUnchanged

\* t.Cleanup(cancel)
ContextRegistersCancel ==
    /\ tc.pc = "Cleanup"
    /\ tc' = [tc EXCEPT !.pc = "return",
                        !.calls = Append(@, TCall("Cleanup", tc.cancel))]
    /\ ContextVarsUnchanged

\* return ctx
ContextReturns ==
    /\ tc.pc = "return"
    /\ tc' = [tc EXCEPT !.pc = "returned", !.result = tc.ctx]
    /\ ContextVarsUnchanged

NextContext ==
    \/ \E context \in TestContexts, deadline \in Deadlines : CallContext(context, deadline)
    \/ ContextReadsContext
    \/ ContextReadsDeadline
    \/ \E now \in Instants : ContextDerives(now)
    \/ ContextRegistersCancel
    \/ ContextReturns

SpecContext == Init /\ [][NextContext]_vars

-----------------------------------------------------------------------------
(* slog handlers built from one NewSlogHandler (specification SpecSlog)    *)

\* How many handlers one run builds, the first one included.
MaxHandlers == 5

\* The arguments of WithAttrs and of WithGroup, and the records handled.
AttrLists ==
    { << Attr("a", "1") >>, << Attr("b", "2") >>, << Attr("a", "1"), Attr("b", "2") >> }
GroupNames == {"g", "h"}
Records ==
    { Record("INFO", "hello", << >>),
      Record("ERROR", "failed", << Attr("k", "v") >>) }

SlogVarsUnchanged ==
    UNCHANGED << astPkgPathToPkg, nextId, SuccessMessageEnabled, flagEnableSuccessMessage,
                 call, records, ret, trace, fromBool, cacheVars, doubleVars, checkVars,
                 contextVars >>

\* NewSlogHandler(t): attrs and groups are nil.
CallNewSlogHandler ==
    /\ handlers = << >>
    /\ handlers' = << [attrs |-> NilSlice, groups |-> NilSlice, chain |-> << >>] >>
    /\ UNCHANGED << heap, logged >>
    /\ SlogVarsUnchanged

\* h.WithAttrs(attrs): attrs: append(h.attrs, attrs...), groups: h.groups
WithAttrs(h, attrs) ==
    /\ h \in 1..Len(handlers)
    /\ Len(handlers) < MaxHandlers
    /\ LET r == AppendSlice(heap.attrs, handlers[h].attrs, attrs, ZeroAttr)
       IN  /\ heap' = [heap EXCEPT !.attrs = r.arrays]
           /\ handlers' = Append(handlers,
                                [attrs  |-> r.slice,
                                 groups |-> handlers[h].groups,
                                 chain  |-> Append(handlers[h].chain,
                                                   ChainCall("WithAttrs", attrs, ""))])
    /\ UNCHANGED logged
    /\ SlogVarsUnchanged

\* h.WithGroup(name): attrs: h.attrs, groups: append(h.groups, name)
WithGroup(h, name) ==
    /\ h \in 1..Len(handlers)
    /\ Len(handlers) < MaxHandlers
    /\ LET r == AppendSlice(heap.groups, handlers[h].groups, << name >>, "")
       IN  /\ heap' = [heap EXCEPT !.groups = r.arrays]
           /\ handlers' = Append(handlers,
                                [attrs  |-> handlers[h].attrs,
                                 groups |-> r.slice,
                                 chain  |-> Append(handlers[h].chain,
                                                   ChainCall("WithGroup", << >>, name))])
    /\ UNCHANGED logged
    /\ SlogVarsUnchanged

\* h.Handle(ctx, record): every append(h.groups, key) that finds spare
\* capacity writes key behind h.groups, so that slot ends with the last key;
\* an append that has to allocate leaves the heap as it is.  The line is
\* built from what h.groups and h.attrs show.
Handle(h, record) ==
    /\ h \in 1..Len(handlers)
    /\ LET groups == Elems(heap.groups, handlers[h].groups)
           attrs  == Elems(heap.attrs, handlers[h].attrs)
           keys   == HandleKeys(attrs, record)
       IN  /\ heap' = [heap EXCEPT !.groups =
                            AppendSlice(@, handlers[h].groups,
                                        IF handlers[h].groups.len < handlers[h].groups.cap
                                        THEN << keys[Len(keys)] >> ELSE << >>, "").arrays]
           /\ logged' = [h |-> h, record |-> record,
                         line |-> HandleLine(groups, attrs, record)]
    /\ UNCHANGED handlers
    /\ SlogVarsUnchanged

NextSlog ==
    \/ CallNewSlogHandler
    \/ \E h \in 1..MaxHandlers, attrs \in AttrLists : WithAttrs(h, attrs)
    \/ \E h \in 1..MaxHandlers, name \in GroupNames : WithGroup(h, name)
    \/ \E h \in 1..MaxHandlers, record \in Records : Handle(h, record)

SpecSlog == Init /\ [][NextSlog]_vars

-----------------------------------------------------------------------------
(* Properties of the assertion surface (specification Spec)                *)

IsAssertion == call.op \in {"Assert", "Require"}

CountOf(method) == Cardinality({ i \in DOMAIN records : records[i].method = method })

Logged(prefix) ==
    { i \in DOMAIN records : records[i].method = "Logf" /\ HasPrefix(records[i].line, prefix) }

\* The user arguments left once a leading empty string is discarded.
UserArgs ==
    IF call.msgAndArgs # << >> /\ Head(call.msgAndArgs) = StrV("")
    THEN Tail(call.msgAndArgs) ELSE call.msgAndArgs

\* The call of the test sources that starts on the line of the last call.
CallOnLine ==
    IF call.file = FileA THEN getASTCallExprAtLine(SourceFile(FileA, StmtsA), call.line).expr
    ELSE IF call.file = FileB
    THEN getASTCallExprAtLine(SourceFile(FileB, StmtsB), call.line).expr
    ELSE NilNode

\* The last call has the custom-check form: test.Assert(check(t, ...)).
IsCustomCheckCall ==
    /\ IsAssertion
    /\ CallOnLine # NilNode
    /\ Len(CallOnLine.Args) = 1
    /\ CallOnLine.Args[1].kind = "CallExpr"
    /\ CallOnLine.Args[1].typ = TTuple

\* C1: Assert returns result, calls t.Fail exactly once when result is false and
\* never when it is true, and never calls t.FailNow.
C1_AssertReturnsResult ==
    call.op = "Assert" =>
        /\ ret = Returned(call.result)
        /\ CountOf("Fail") = (IF call.result THEN 0 ELSE 1)
        /\ CountOf("FailNow") = 0

\* C2: Require calls t.FailNow exactly once if and only if result is false, after
\* the "Error: " line was logged; with result true it calls neither t.Fail nor
\* t.FailNow.
C2_RequireFailsNowAfterErrorLine ==
    call.op = "Require" =>
        /\ ret.kind = "return"
        /\ CountOf("FailNow") = (IF call.result THEN 0 ELSE 1)
        /\ call.result => CountOf("Fail") = 0
        /\ \A j \in DOMAIN records :
            records[j].method = "FailNow" => \E i \in Logged("Error: ") : i < j

\* C3: with result true and success messages disabled Assert and Require make no
\* Logf call; with result true and success messages enabled they log exactly one
\* line prefixed "Success: "; with result false they log a line prefixed
\* "Error: " whatever the toggle.
C3_LoggingFollowsToggle ==
    IsAssertion =>
        /\ (call.result /\ ~call.enabled) => CountOf("Logf") = 0
        /\ (call.result /\ call.enabled) => Cardinality(Logged("Success: ")) = 1
        /\ ~call.result => Logged("Error: ") # {}

\* The case C4 is about: FromBool returned an error during a failing assertion.
FromBoolFailedOnFailingAssertion ==
    IsAssertion /\ ~call.result /\ fromBool.called /\ ~fromBool.panic
        /\ fromBool.err # NoErr

\* The test was failed as result dictates, and the secondary line was logged.
OutcomeNotMasked ==
    /\ ret.kind = "return"
    /\ CountOf(IF call.op = "Assert" THEN "Fail" ELSE "FailNow") = 1
    /\ Logged("krostar/test internal failure") # {}

CheckString == call.msgAndArgs[1].s

\* C5 as stated: in the custom-check form the check's string is the logged
\* message as is, and message.FromBool is not invoked.
C5_CheckStringAsIsNoFromBool ==
    IsCustomCheckCall =>
        /\ ~fromBool.called
        /\ \A i \in DOMAIN records :
            records[i].method = "Logf" =>
                records[i].line \in {"Error: " \o CheckString, "Success: " \o CheckString}

\* What the custom-check form logs: FromBool's rendering of the check call, then
\* the check's string in square brackets unless it is empty.
CheckMessage ==
    fromBool.msg \o (IF CheckString = "" THEN "" ELSE " [" \o CheckString \o "]")

\* C5 amended: in the custom-check form message.FromBool is invoked whenever
\* result is false or success messages are enabled (and only then); the line
\* logged is FromBool's string followed by the check's string in square
\* brackets, the brackets being left out when the check's string is empty, and
\* no line is logged when both are empty.
C5_CheckStringAppendedToFromBool ==
    IsCustomCheckCall =>
        /\ ret.kind = "return"
        /\ fromBool.called <=> (~call.result \/ call.enabled)
        /\ ~fromBool.called => CountOf("Logf") = 0
        /\ fromBool.called =>
            /\ Cardinality(Logged("Error: ") \cup Logged("Success: "))
                    = (IF CheckMessage = "" THEN 0 ELSE 1)
            /\ \A i \in Logged("Error: ") \cup Logged("Success: ") :
                records[i].line
                    = (IF call.result THEN "Success: " ELSE "Error: ") \o CheckMessage

\* C5 witness: a failing custom check logged FromBool's rendering of the check
\* call followed by the check's string.
C5_WitnessCheckStringInBrackets ==
    /\ IsCustomCheckCall
    /\ ~call.result
    /\ fromBool.called
    /\ CheckString = "comparison differs"
    /\ Logged("Error: function check.Compare(t, got, want) returned false [comparison differs]")
            # {}

\* FromBool located a call expression.
Located == fromBool.called /\ fromBool.located # NilNode

\* C6 as stated: a located call with zero or one argument is treated as a custom
\* check (a subject is selected, the sole argument), and a call with two or more
\* arguments selects the second argument.
C6_ZeroOrOneArgIsCustomCheck ==
    Located =>
        /\ Len(fromBool.located.Args) <= 1 =>
            /\ fromBool.arg # NilNode
            /\ ~Contains(fromBool.err, "unexpected call expr arguments number")
        /\ Len(fromBool.located.Args) >= 2 => fromBool.arg = fromBool.located.Args[2]

\* C6 amended: a located call with exactly one argument is treated as a custom
\* check (its sole argument is the subject), a call with two or more arguments
\* selects the second argument, and a call with no argument has no subject:
\* FromBool returns the empty message and the error "unexpected call expr
\* arguments number 0".
C6_SubjectByArgumentCount ==
    Located =>
        /\ Len(fromBool.located.Args) = 0 =>
            /\ fromBool.arg = NilNode
            /\ fromBool.msg = ""
            /\ fromBool.err = "unexpected call expr arguments number 0"
        /\ Len(fromBool.located.Args) = 1 => fromBool.arg = fromBool.located.Args[1]
        /\ Len(fromBool.located.Args) >= 2 => fromBool.arg = fromBool.located.Args[2]
        /\ Len(fromBool.located.Args) >= 1 =>
            ~Contains(fromBool.err, "unexpected call expr arguments number")

\* C6 witness: the call located has no argument (the deferred closure call
\* that starts on the line of the assertion) and FromBool reported the count.
C6_WitnessNoArgument ==
    /\ Located
    /\ Len(fromBool.located.Args) = 0
    /\ fromBool.err = "unexpected call expr arguments number 0"

\* FromBool returned an error.
FromBoolFailed == fromBool.called /\ ~fromBool.panic /\ fromBool.err # NoErr

\* C7 as stated: on any failure FromBool returns a non-nil error together with
\* the re-serialized text of the whole call expression.
C7_FallbackOnAnyFailure ==
    FromBoolFailed =>
        /\ fromBool.msg # ""
        /\ CallOnLine # NilNode
        /\ fromBool.msg = genericASTExprToString(CallOnLine)

\* C7 amended: whenever FromBool returns an error, the string returned with it is
\* the re-serialized text of the whole call expression if the failure is a
\* rendering failure ("unable to get arg repr"), and the empty string if the
\* failure comes from caller or AST resolution or from the argument count.
C7_FallbackOnRenderingFailureOnly ==
    FromBoolFailed =>
        IF HasPrefix(fromBool.err, "unable to get arg repr: ")
        THEN /\ Located
             /\ fromBool.located = CallOnLine
             /\ fromBool.msg = genericASTExprToString(CallOnLine)
        ELSE /\ fromBool.msg = ""
             /\ \/ fromBool.err = "no caller information available"
                \/ HasPrefix(fromBool.err, "unable to get package AST: ")
                \/ HasPrefix(fromBool.err, "unable to get call expr from caller: ")
                \/ HasPrefix(fromBool.err, "unexpected call expr arguments number ")

\* C7 witness: a rendering failure returned the text of the whole call.
C7_WitnessRenderingFallback ==
    /\ FromBoolFailed
    /\ HasPrefix(fromBool.err, "unable to get arg repr: ")
    /\ fromBool.msg = "test.Require(t, flags[0], reason)"

\* The last call is a direct FromBool call for a depth below the stack.
NoCallerForDepth ==
    call.op = "FromBool" /\ call.index + 1 >= Len(FromBoolStack)

\* C8: when the stack has no frame at the requested depth FromBool returns the
\* empty message and an error containing "no caller information available", and
\* the package cache is neither read nor changed.
C8_NoCallerInformation ==
    /\ [](NoCallerForDepth =>
            /\ ret.kind = "return"
            /\ ret.msg = ""
            /\ Contains(ret.err, "no caller information available")
            /\ trace = << "runtime.Caller" >>)
    /\ [][NoCallerForDepth' => astPkgPathToPkg' = astPkgPathToPkg]_vars

\* C8 witness: FromBool(100, true) returned with the cache already populated.
C8_WitnessDepth100 ==
    /\ NoCallerForDepth
    /\ call.index > Len(FromBoolStack)
    /\ call.result
    /\ ret.err = "no caller information available"
    /\ CacheHas(astPkgPathToPkg, DirA)

-----------------------------------------------------------------------------
(* Properties of the package-AST cache (specification SpecCache)           *)

\* Goroutine g has returned from a GetPackageAST call.
HasReturned(g) == pc[g] = "idle" /\ res[g].dir # ""

\* Goroutine g takes the step that runs the loader.
RunsLoader(g) == pc[g] = "parse" /\ pc'[g] # "parse"

\* The load of pkgDir with this outcome fails: the loader reports an error, or a
\* package it loaded carries diagnostics.
LoadFails(pkgDir, outcome) ==
    \/ Load(pkgDir, outcome).err # NoErr
    \/ \E i \in DOMAIN Load(pkgDir, outcome).pkgs :
        Load(pkgDir, outcome).pkgs[i].Errors # << >>

\* C9: once a GetPackageAST call for a directory has succeeded, every call for it
\* returns the very same mapping, the loader is not invoked for it again, its
\* cache entry is never replaced or removed, and so the loader succeeds at most
\* once per directory.
C9_CachedOnceAndForAll ==
    /\ [](\A g \in Goroutines :
            (HasReturned(g) /\ res[g].err = NoErr) =>
                /\ CacheHas(astPkgPathToPkg, res[g].dir)
                /\ astPkgPathToPkg.m[res[g].dir] = res[g].pkgs
                /\ res[g].hit <=> ~res[g].loaded)
    /\ [](\A d \in CacheDirs : hist.loads[d] <= 1)
    /\ [][\A d \in CacheDirs :
            CacheHas(astPkgPathToPkg, d) =>
                /\ CacheHas(astPkgPathToPkg', d)
                /\ astPkgPathToPkg'.m[d] = astPkgPathToPkg.m[d]
                /\ hist'.loads[d] = hist.loads[d]
                /\ \A g \in Goroutines : RunsLoader(g) => req[g] # d]_vars

\* C9 witness: one goroutine loaded a directory, the other was then served the
\* same mapping from the cache.
C9_WitnessHitAfterLoad ==
    \E g, h \in Goroutines :
        /\ g # h
        /\ HasReturned(g) /\ res[g].loaded /\ res[g].err = NoErr
        /\ HasReturned(h) /\ res[h].hit /\ res[h].dir = res[g].dir
        /\ res[h].pkgs = res[g].pkgs
        /\ res[h].pkgs.id > 0

\* C10: when the load of a directory fails GetPackageAST returns a nil mapping and
\* an error, the cache is at the return what it was when the call began (no
\* entry for the directory, the other entries unchanged), and the next
\* GetPackageAST call for the directory invokes the loader again.
C10_FailedLoadIsNotCached ==
    /\ [](\A g \in Goroutines :
            (pc[g] \in {"store", "unlock", "idle"} /\ res[g].loaded
                    /\ LoadFails(res[g].dir, res[g].outcome)) =>
                /\ pc[g] # "store"
                /\ res[g].pkgs = NilPkgs
                /\ res[g].err # NoErr
                /\ ~CacheHas(res[g].before, res[g].dir)
                /\ pc[g] = "unlock" => astPkgPathToPkg = res[g].before)
    /\ [](\A d \in hist.failed : ~CacheHas(astPkgPathToPkg, d))
    /\ [][\A g \in Goroutines :
            (pc[g] = "lookup" /\ pc'[g] # "lookup" /\ req[g] \in hist.failed) =>
                pc'[g] = "parse"]_vars

\* C10 witness: a goroutine is back from a load that failed on diagnostics while
\* another directory stays cached, and a call for the failed directory is about
\* to look it up again.
C10_WitnessRetryAfterFailure ==
    \E g, h \in Goroutines :
        /\ g # h
        /\ HasReturned(g) /\ res[g].loaded /\ res[g].outcome = "diagErr"
        /\ res[g].err # NoErr /\ res[g].pkgs = NilPkgs
        /\ res[g].dir \in hist.failed
        /\ \E d \in CacheDirs : d # res[g].dir /\ CacheHas(astPkgPathToPkg, d)
        /\ pc[h] = "lookup" /\ req[h] = res[g].dir

\* Goroutine g is inside GetPackageAST, past _astLock.Lock().
InsideGetPackageAST(g) == pc[g] \in {"lookup", "parse", "store", "unlock"}

\* Goroutine g is blocked in _astLock.Lock().
Blocked(g) == pc[g] = "lock" /\ astLock # "free"

\* C11 as stated: a caller asking for a directory that is already cached never
\* has to wait for another caller, in particular not for one that is parsing
\* another directory.
C11_CacheHitNeverWaits ==
    \A g \in Goroutines :
        (pc[g] = "lock" /\ CacheHas(astPkgPathToPkg, req[g])) => ~Blocked(g)

\* C11 amended: GetPackageAST holds the one mutex from entry to return, for a
\* cache hit as for a load: a goroutine is inside exactly when it holds the lock
\* (so at most one is), a caller proceeds only when the lock is free, and a cache
\* hit is served by the holder of the lock without the loader being run.
C11_CallsAreSerialised ==
    /\ [](\A g \in Goroutines : InsideGetPackageAST(g) <=> astLock = g)
    /\ [][\A g \in Goroutines :
            /\ (pc[g] = "lock" /\ pc'[g] # "lock") => astLock = "free"
            /\ (res'[g].hit /\ ~res[g].hit) =>
                    astLock = g /\ ~res'[g].loaded /\ nextId' = nextId]_vars

\* C11 witness: a caller asking for a cached directory is blocked while another
\* caller, holding the lock, is parsing a different directory that is not cached.
C11_WitnessHitWaitsForParse ==
    \E g, h \in Goroutines :
        /\ Blocked(g) /\ CacheHas(astPkgPathToPkg, req[g])
        /\ pc[h] = "parse" /\ astLock = h
        /\ req[h] # req[g] /\ ~CacheHas(astPkgPathToPkg, req[h])

\* Goroutine g is back from InitPackageASTCache (its panic recovered, if any).
InitReturned(g) == res[g].init /\ pc[g] = "idle"

\* C12: InitPackageASTCache panics with "fail to init package cache" when the load
\* fails, and the failed call leaves no cache entry for the directory (the cache
\* is, when the lock is released, what it was when it was taken); when it returns
\* normally the directory is cached, and every later GetPackageAST for it is a
\* cache hit that returns without error.
C12_InitIsFailFast ==
    /\ [](\A g \in Goroutines :
            (res[g].init /\ res[g].loaded /\ LoadFails(res[g].dir, res[g].outcome)) =>
                /\ pc[g] = "unlock" =>
                    /\ ~CacheHas(astPkgPathToPkg, res[g].dir)
                    /\ astPkgPathToPkg = res[g].before
                /\ pc[g] = "idle" => Contains(res[g].panic, "fail to init package cache"))
    /\ [](\A g \in Goroutines :
            (InitReturned(g) /\ ~(res[g].loaded /\ LoadFails(res[g].dir, res[g].outcome))) =>
                /\ res[g].panic = ""
                /\ res[g].err = NoErr
                /\ res[g].dir \in hist.warm)
    /\ [](\A d \in hist.warm : CacheHas(astPkgPathToPkg, d))
    /\ [][\A g \in Goroutines :
            (pc[g] = "lookup" /\ pc'[g] # "lookup" /\ req[g] \in hist.warm) =>
                /\ pc'[g] = "unlock"
                /\ res'[g].hit /\ ~res'[g].loaded
                /\ res'[g].err = NoErr
                /\ res'[g].pkgs = astPkgPathToPkg.m[req[g]]]_vars

\* C12 witness: one goroutine recovered the panic of a failed InitPackageASTCache,
\* the other was served from the cache a directory InitPackageASTCache warmed.
C12_WitnessPanicAndWarmHit ==
    \E g, h \in Goroutines :
        /\ InitReturned(g)
        /\ HasPrefix(res[g].panic, "fail to init package cache: ")
        /\ ~CacheHas(astPkgPathToPkg, res[g].dir)
        /\ HasReturned(h) /\ ~res[h].init /\ res[h].hit
        /\ res[h].dir \in hist.warm
        /\ res[h].err = NoErr

-----------------------------------------------------------------------------
(* Properties of the internal functions (specification SpecUnit)           *)

\* The file of the test sources recorded under a path, if there is one.
FileNamed(name) ==
    IF name = FileA THEN SourceFile(FileA, StmtsA)
    ELSE IF name = FileB THEN SourceFile(FileB, StmtsB)
    ELSE [name |-> "", root |-> Stmt("File", 1, << >>)]

\* The file named is part of the packages loaded for the directory.
FileInForest(pkgDir, name) ==
    \/ pkgDir = DirA /\ name = FileA
    \/ pkgDir = DirB /\ name = FileB

\* The positions, in depth-first pre-order, of the call expressions of the file
\* that start on the line.
CallsOnLine(name, line) ==
    { i \in DOMAIN PreOrder(FileNamed(name).root) :
        /\ PreOrder(FileNamed(name).root)[i].kind = "CallExpr"
        /\ PreOrder(FileNamed(name).root)[i].line = line }

ResolverCalled == call.op = "GetCallerCallExpr"

\* C13: GetCallerCallExpr returns the first call expression, in depth-first
\* pre-order, of the file matching callerFile that starts on callerLine; when
\* several start on that line the first met wins, an enclosing call before the
\* call nested in it.
C13_FirstCallOnLineInPreOrder ==
    (ResolverCalled /\ FileInForest(call.dir, call.file)
            /\ CallsOnLine(call.file, call.line) # {}) =>
        /\ ret.err = NoErr
        /\ ret.file = call.file
        /\ \E i \in CallsOnLine(call.file, call.line) :
            /\ ret.expr = PreOrder(FileNamed(call.file).root)[i]
            /\ \A j \in CallsOnLine(call.file, call.line) : i <= j

\* C13 witness: two calls start on line 13, the call of the deferred closure
\* and the assertion nested in it; the closure call is returned.
C13_WitnessEnclosingCallWins ==
    /\ ResolverCalled
    /\ call.file = FileA /\ call.line = 13
    /\ Cardinality(CallsOnLine(FileA, 13)) = 2
    /\ ret.expr.Fun.kind = "FuncLit"
    /\ genericASTExprToString(ret.expr) = "func() { test.Require(t, ok) }()"

\* C14: GetCallerCallExpr fails with "unable to find ast file and package" when
\* no file of the forest is recorded under callerFile, and with "unable to get
\* call expression" when the file is found but no call expression starts on
\* callerLine; in both cases the expression, the file and the package returned
\* are nil.
C14_ResolverErrors ==
    ResolverCalled =>
        /\ ~FileInForest(call.dir, call.file) =>
                Contains(ret.err, "unable to find ast file and package")
        /\ (FileInForest(call.dir, call.file) /\ CallsOnLine(call.file, call.line) = {}) =>
                Contains(ret.err, "unable to get call expression")
        /\ ret.err # NoErr =>
                ret.expr = NilNode /\ ret.file = "nil" /\ ret.pkg = "nil"

\* C14 witness: the file is found but line 21, where the arguments of a call
\* that starts on line 20 are, has no call expression of its own.
C14_WitnessNoCallOnLine ==
    /\ ResolverCalled
    /\ call.file = FileA /\ call.line = 21
    /\ ret.err = "unable to get call expression: ast inspection did not return a node"
    /\ ret.expr = NilNode /\ ret.file = "nil" /\ ret.pkg = "nil"

\* The last call is customizeASTExprRepr(pkg, call.result, call.expr).
Rendered == call.op = "customizeASTExprRepr"

\* The rendering is a description: a string returned with a nil error.
Described == ret.kind = "return" /\ ret.err = NoErr /\ ret.msg # ""

\* The rendering failed: an error returned with no text.
Failed == ret.kind = "return" /\ ret.err # NoErr /\ ret.msg = ""

\* The comparison "is equal": == under polarity true, or != under polarity false.
IsEqual == (call.expr.op = "==") <=> call.result

\* The source text of an operand of the expression rendered.
TextX == genericASTExprToString(call.expr.X)
TextY == genericASTExprToString(call.expr.Y)

\* An operand of the expression rendered under the polarity of the call.
OperandRendered(operand) ==
    customizeASTExprRepr(call.result, operand).err = NoErr
        /\ ~customizeASTExprRepr(call.result, operand).panic

\* C15: for x && y and x || y both operands are rendered under the polarity of
\* the whole expression and joined with ", and " (&& true, || false) or ", or "
\* (&& false, || true); if an operand cannot be rendered the rendering fails
\* with an error and no partial text.
C15_LogicalJoinsOperands ==
    (Rendered /\ call.expr.kind = "BinaryExpr" /\ call.expr.op \in {"&&", "||"}) =>
        IF OperandRendered(call.expr.X) /\ OperandRendered(call.expr.Y)
        THEN /\ Described
             /\ ret.msg = customizeASTExprRepr(call.result, call.expr.X).msg
                    \o (IF (call.expr.op = "&&") <=> call.result
                        THEN ", and " ELSE ", or ")
                    \o customizeASTExprRepr(call.result, call.expr.Y).msg
        ELSE Failed

\* The operator of the logically negated comparison.
Negated(op) ==
    CASE op = "==" -> "!=" [] op = "!=" -> "=="
      [] op = ">"  -> "<=" [] op = "<=" -> ">"
      [] op = "<"  -> ">=" [] op = ">=" -> "<"

\* C16: a comparison rendered under polarity true and the logically negated
\* comparison rendered under polarity false (and the other way round) yield
\* the same description, whatever the shape of the right-hand side.
C16_NegatedComparisonSameText ==
    (Rendered /\ call.expr.kind = "BinaryExpr"
            /\ call.expr.op \in {"==", "!=", ">", "<=", "<", ">="}) =>
        /\ Described
        /\ ret = ReprReturn(customizeASTExprRepr(~call.result,
                                [call.expr EXCEPT !.op = Negated(@)]))

\* The expression rendered is !X.
IsNegation == call.expr.kind = "UnaryExpr" /\ call.expr.op = "!"

\* The operand shapes a negation recurses into.
Negatable(x) == x.kind \in {"CallExpr", "Ident", "ParenExpr", "UnaryExpr"}

C18_ParenAndArrowAreTransparent ==
    (Rendered /\ (call.expr.kind = "ParenExpr"
                    \/ (call.expr.kind = "UnaryExpr" /\ call.expr.op = "<-"))) =>
        ret = ReprReturn(customizeASTExprRepr(call.result, call.expr.X))

\* C18 witness: <-ch under polarity false rendered as ch under polarity false.
C18_WitnessReceive ==
    /\ Rendered /\ ~call.result
    /\ call.expr.kind = "UnaryExpr" /\ call.expr.op = "<-"
    /\ call.expr.X = VarIdent("ch", 1, TChan)
    /\ ret.msg = "var ch is false"

\* The left operand is a call of a function whose signature has exactly one
\* result, of the built-in error type.
XReturnsOnlyError ==
    call.expr.X.kind = "CallExpr" /\ call.expr.X.Fun.typ = TSig(<< TError >>)

\* C19: X == nil and X != nil render as "<X> returned no error" / "<X> returned
\* an error" when X is a call returning exactly one error, as "<X> returned
\* nil" / "<X> returned not nil" when X is any other call, and as "<X> is nil" /
\* "<X> is not nil" when X is no call.
C19_NilComparisonRendering ==
    (Rendered /\ call.expr.kind = "BinaryExpr" /\ call.expr.op \in {"==", "!="}
            /\ call.expr.Y = NilIdent(1)) =>
        /\ Described
        /\ ret.msg = TextX \o
            (IF XReturnsOnlyError
             THEN (IF IsEqual THEN " returned no error" ELSE " returned an error")
             ELSE IF call.expr.X.kind = "CallExpr"
             THEN (IF IsEqual THEN " returned nil" ELSE " returned not nil")
             ELSE (IF IsEqual THEN " is nil" ELSE " is not nil"))

\* C19 witness: find() != nil under polarity true, find returning a pointer.
C19_WitnessOtherCall ==
    /\ Rendered /\ call.result
    /\ call.expr.kind = "BinaryExpr" /\ call.expr.op = "!="
    /\ call.expr.X = Call0("find", << TPtrT >>)
    /\ ret.msg = "find() returned not nil"

\* C20: x == y and x != y, x no call and y of boolean type, render as "<x> is
\* <c>" / "<x> is not <c>" when y is the boolean constant c, and as "<x> is
\* equal to <y>" / "<x> is not equal to <y>", returned as a string, when y is
\* no constant.
C20_BoolComparisonRendering ==
    (Rendered /\ call.expr.kind = "BinaryExpr" /\ call.expr.op \in {"==", "!="}
            /\ call.expr.X.kind # "CallExpr" /\ call.expr.Y.typ \in {TBool, TUntypedBool}) =>
        /\ Described
        /\ ret.msg = TextX \o
            (IF call.expr.Y.cval \in {"true", "false"}
             THEN (IF IsEqual THEN " is " ELSE " is not ") \o call.expr.Y.cval
             ELSE (IF IsEqual THEN " is equal to " ELSE " is not equal to ") \o TextY)

\* The expression is a call of errors.Is written with its two arguments.
IsErrorsIs(x) ==
    /\ x.kind = "CallExpr" /\ x.Fun.kind = "SelectorExpr"
    /\ x.Fun.Y.pkg = "errors" /\ x.Fun.Y.name = "Is" /\ Len(x.Args) = 2

\* The sentence for errors.Is(err, target) under polarity p.
ErrorTreeSentence(x, p) ==
    IF p
    THEN genericASTExprToString(x.Args[1]) \o "'s error tree contains "
            \o genericASTExprToString(x.Args[2])
    ELSE genericASTExprToString(x.Args[2]) \o " is not in the error tree of "
            \o genericASTExprToString(x.Args[1])

\* C21: errors.Is(err, target) renders as "<err>'s error tree contains
\* <target>" under polarity true and as "<target> is not in the error tree of
\* <err>" under polarity false; !errors.Is(err, target) with result false
\* renders the "contains" sentence and with result true the other one.
C21_ErrorsIsRendering ==
    /\ (Rendered /\ IsErrorsIs(call.expr)) =>
            (Described /\ ret.msg = ErrorTreeSentence(call.expr, call.result))
    /\ (Rendered /\ IsNegation /\ IsErrorsIs(call.expr.X)) =>
            (Described /\ ret.msg = ErrorTreeSentence(call.expr.X, ~call.result))

\* C21 witness: !errors.Is(run(), s.EOF) with result false rendered with the
\* "contains" sentence, the arguments in the order they are written.
C21_WitnessNegatedIs ==
    /\ Rendered /\ IsNegation /\ ~call.result /\ IsErrorsIs(call.expr.X)
    /\ ret.msg = "run()'s error tree contains s.EOF"

\* C22: for every subject expression of boolean type the rewriter returns: it
\* gives either a description or an error with no text, and never panics.
C22_RewriterNeverPanics ==
    Rendered => (ret.kind = "return" /\ (Described \/ Failed))

-----------------------------------------------------------------------------
(* Properties of the test doubles (specifications SpecSpy and SpecExpect)  *)

\* The Spy method calls that took spy.m and got at least as far as calling
\* the underlying method, and those that appended their record.
DelegatedCalls == SelectSeq(spyCalls, LAMBDA e : e.status # "locked")
RecordedCalls  == SelectSeq(spyCalls, LAMBDA e : e.status = "recorded")

\* The record of a call, with the results of the underlying method.
RecordOfCall(c) == RecordOf(c, Underlying(spy.underlyingT, c.method).outputs)

\* The Logf calls among the recorded calls.
RecordedLogfs == SelectSeq(RecordedCalls, LAMBDA e : e.call.method = "Logf")

\* The last call a goroutine made, if it took the lock.
HasCalled(g) == \E i \in DOMAIN spyCalls : spyCalls[i].g = g
LastCall(g)  == spyCalls[CallIndex(g)]

\* What holds of the Spy in every state.
SpyConsistent ==
    /\ spy.delegated = [i \in DOMAIN DelegatedCalls |-> DelegatedCalls[i].call.method]
    /\ spy.records = [i \in DOMAIN RecordedCalls |-> RecordOfCall(RecordedCalls[i].call)]
    /\ spy.logs = [i \in DOMAIN RecordedLogfs |->
                        Sprintf(RecordedLogfs[i].call.format, RecordedLogfs[i].call.args)]
    /\ spy.failed <=>
            \E i \in DOMAIN spy.records : spy.records[i].Method \in {"Fail", "FailNow"}
    /\ \A i \in DOMAIN spyCalls :
            spyCalls[i].status \in {"locked", "delegated"} => spy.m = spyCalls[i].g
    /\ \A g \in Goroutines :
            /\ (spc[g].pc = "idle" /\ HasCalled(g)) => LastCall(g).status = "recorded"
            /\ spc[g].pc = "exited" =>
                    /\ LastCall(g).status = "unwound"
                    /\ ~Underlying(spy.underlyingT, LastCall(g).call.method).returns

\* What holds of every step: records and logs only grow at their end, and
\* failed never goes back to false.
SpyOnlyAppends ==
    /\ Len(spy.records) <= Len(spy.records')
    /\ SubSeq(spy.records', 1, Len(spy.records)) = spy.records
    /\ Len(spy.logs) <= Len(spy.logs')
    /\ SubSeq(spy.logs', 1, Len(spy.logs)) = spy.logs
    /\ spy.failed => spy.failed'

\* C23 (original statement): once no call is inside the Spy, every call that
\* took the lock has been delegated and has appended exactly one record, and
\* failed tells whether Fail or FailNow was called.
C23_EveryCallRecorded ==
    spy.m = "free" =>
        /\ Len(spy.delegated) = Len(spyCalls)
        /\ Len(spy.records) = Len(spyCalls)
        /\ spy.failed <=>
                \E i \in DOMAIN spyCalls : spyCalls[i].call.method \in {"Fail", "FailNow"}

\* C23 (amended): every call that took the lock has been delegated to the
\* underlying TestingT, in lock order; the records are those of the calls
\* whose underlying method returned, in lock order, never removed or altered;
\* logs holds the formatted line of each Logf record in order; failed is true
\* exactly when the records hold a Fail or FailNow entry and stays true; a
\* call that returned has its record, and a call whose underlying method did
\* not return has released the lock without a record.
C23_RecordsFollowReturnedDelegations ==
    []SpyConsistent /\ [][SpyOnlyAppends]_vars

\* C23 witness: over a *testing.T one goroutine is gone in FailNow, delegated
\* and not recorded, and the other goroutine's later Logf is recorded.
C23_WitnessFailNowUnwinds ==
    /\ spy.m = "free" /\ ~spy.failed
    /\ spy.delegated = << "FailNow", "Logf" >>
    /\ Len(spy.records) = 1 /\ spy.records[1].Method = "Logf"
    /\ spy.logs = << "hello world" >>
    /\ \E g \in Goroutines : spc[g].pc = "exited"

\* The last call is spy.ExpectRecords(t, call.strict, call.expected...).
Expected == call.op = "ExpectRecords"

\* ExpectRecords failed the test: one Logf whose line starts with prefix, then
\* Fail.  It passed: neither.
ExpectationFailed(prefix) ==
    /\ Len(records) = 3 /\ records[1] = T("Helper") /\ records[3] = T("Fail")
    /\ records[2].method = "Logf" /\ HasPrefix(records[2].line, prefix)
ExpectationPassed == records = << T("Helper") >>

\* Two parameter lists are equal: same length and, position by position, an
\* ignore marker on either side, or the same type and the same value (for
\* funcs, which cannot be compared, the same nil status).
ParamsEqual(x, y) ==
    /\ Len(x) = Len(y)
    /\ \A i \in DOMAIN x :
        \/ x[i].t = SpyTestingTRecordIgnoreParam.t
        \/ y[i].t = SpyTestingTRecordIgnoreParam.t
        \/ /\ x[i].t = y[i].t
           /\ IF x[i].t = "func()" THEN (x[i].s = "nil") <=> (y[i].s = "nil")
              ELSE x[i].s = y[i].s

\* C24: in strict mode ExpectRecords fails the test (one Logf, then Fail)
\* unless the recorded calls and the expected records have the same length
\* and, position by position, the same method name and equal inputs and
\* outputs, ignored parameters excepted.
C24_StrictExactMatch ==
    (Expected /\ call.strict) =>
        IF /\ Len(call.actual) = Len(call.expected)
           /\ \A i \in DOMAIN call.actual :
                /\ call.actual[i].Method = call.expected[i].Method
                /\ ParamsEqual(call.actual[i].Inputs, call.expected[i].Inputs)
                /\ ParamsEqual(call.actual[i].Outputs, call.expected[i].Outputs)
        THEN ExpectationPassed
        ELSE ExpectationFailed("Expected provided records to match")

\* Every expected record can be paired with a distinct recorded call that
\* seemsEqualTo it.
PairingExists ==
    \E f \in [DOMAIN call.expected -> DOMAIN call.actual] :
        /\ \A j, k \in DOMAIN call.expected : f[j] = f[k] => j = k
        /\ \A k \in DOMAIN call.expected : seemsEqualTo(call.actual[f[k]], call.expected[k])

\* C25: in non-strict mode ExpectRecords passes if and only if every expected
\* record can be paired with a distinct recorded call that matches it,
\* whatever the order and the extra recorded calls; otherwise it fails with a
\* "Missing expected records" log.
C25_NonStrictPairing ==
    (Expected /\ ~call.strict) =>
        IF PairingExists THEN ExpectationPassed
        ELSE ExpectationFailed("Missing expected records")

-----------------------------------------------------------------------------
(* Properties of check.Eventually (SpecEventually, SpecEventuallyFair)     *)

EventuallyReturned == ev.pc = "returned"

\* What holds of the outcome in every state: true is returned exactly when an
\* invocation of check returned nil, at once and after the first one; false is
\* returned only with ctx done.
OutcomeFollowsCheck ==
    /\ ev.passed = 1 <=> (EventuallyReturned /\ ev.result)
    /\ (EventuallyReturned /\ ~ev.result) => ev.ctxDone
    /\ EventuallyReturned => ev.tryC = 0 \/ ~ev.result

\* C26: Eventually returns (t, true, ...) exactly when an invocation of check
\* returned nil, right after the first such invocation and without invoking
\* check again; it returns (t, false, ...) only when ctx is done; and once
\* ctx is done the call returns (every invocation of check returning, and an
\* invocation that returns nil ending the call at once).
C26_RetriesUntilSuccessOrDone ==
    /\ []OutcomeFollowsCheck
    /\ [][EventuallyReturned => ev' = ev]_vars
    /\ (ev.pc # "none" /\ ev.ctxDone) ~> EventuallyReturned

\* C26 witness: check failed twice, ctx ended, and the third invocation, which
\* the select chose over ctx.Done(), returned nil: true is returned.
C26_WitnessSuccessAfterRetries ==
    /\ EventuallyReturned /\ ev.result /\ ev.ctxDone
    /\ ev.failed = 2
    /\ ev.msg = "check passed in <elapsed> with 2 retries"

\* What holds of the counters in every state.
RetriesCountFailures ==
    /\ ev.retries = ev.failed
    /\ EventuallyReturned =>
            ev.msg = IF ev.result THEN PassedMsg(ev.failed)
                     ELSE ExpiredMsg(ev.failed, ev.errs)
    /\ ev.pc = "check" => ev.tryC = 0

\* What holds of every step: check is invoked from the select only, after the
\* timer fired since the previous invocation, the first time a timer of
\* duration 0 and later one of duration timeBetweenRetries; a failed
\* invocation re-arms the timer to timeBetweenRetries.
InvocationsFollowTimer ==
    /\ ev'.invoked # ev.invoked =>
            /\ ev.pc = "select" /\ ev'.pc = "check"
            /\ ev.fired # -1
            /\ ev.fired = IF ev.invoked = 0 THEN 0 ELSE ev.timeBetweenRetries
    /\ (ev.pc = "check" /\ ev'.pc = "select") =>
            ev'.timer = [armed |-> TRUE, d |-> ev.timeBetweenRetries]

\* C28: the first invocation of check does not wait for timeBetweenRetries,
\* check is never invoked twice without the retry timer, re-armed to
\* timeBetweenRetries after each failed invocation, having fired in between,
\* invocations are sequential, and the retry count in the returned message is
\* the number of invocations that returned an error.
C28_RetryTimerAndCount ==
    []RetriesCountFailures /\ [][InvocationsFollowTimer]_vars

\* C28 witness: ctx ended after two failed invocations, and the message
\* reports 2 retries and the two errors.
C28_WitnessExpiredAfterTwo ==
    /\ EventuallyReturned /\ ~ev.result
    /\ ev.failed = 2 /\ ev.timeBetweenRetries = 10
    /\ ev.msg = "check did not pass in <elapsed> with 2 retries and now context is "
                    \o "expired, last two errors: boom 0\nalways fails"

-----------------------------------------------------------------------------
(* Properties of test.Context (specification SpecContext)                  *)

ContextReturned == tc.pc = "returned"

\* The names of the TestingT methods called so far, in order.
CalledMethods == [i \in 1..Len(tc.calls) |-> tc.calls[i].method]

\* C27: test.Context(t) calls t.Context once, then t.Deadline once, then
\* t.Cleanup once if and only if t reports a deadline, with the cancel
\* function of the context it derived and returns; it calls nothing else,
\* and it returns t.Context() itself when t reports no deadline.
C27_ContextCallsAndResult ==
    /\ \E n \in 0..3 : CalledMethods = SubSeq(<< "Context", "Deadline", "Cleanup" >>, 1, n)
    /\ ContextReturned =>
            IF tc.t.deadline # 0
            THEN /\ CalledMethods = << "Context", "Deadline", "Cleanup" >>
                 /\ tc.result.derived /\ tc.result.name = tc.t.context.name \o ".WithDeadline"
                 /\ tc.calls[3].input = "cancel of " \o tc.result.name
            ELSE /\ CalledMethods = << "Context", "Deadline" >>
                 /\ tc.result = tc.t.context

\* C27 witness: t reports a deadline one second ahead; Context returned a
\* context ending 10ms before it, after registering its cancel function.
C27_WitnessDeadlineCleanup ==
    /\ ContextReturned /\ tc.t.deadline = 1000 /\ tc.t.context = Background
    /\ tc.result.deadline = 990
    /\ tc.calls[3] = TCall("Cleanup", "cancel of context.Background.WithDeadline")

-----------------------------------------------------------------------------
(* Properties of the slog handlers (specification SpecSlog)                *)

\* The attribute list and the group path handler i shows.
AttrsOf(i)  == Elems(heap.attrs, handlers[i].attrs)
GroupsOf(i) == Elems(heap.groups, handlers[i].groups)

\* C30: every handler keeps the attribute list and the group path that the
\* WithAttrs and WithGroup calls that built it add up to, whatever was called
\* since on it, on its parent and on its siblings, and the line Handle logs
\* is the one that chain and the record determine.
C30_HandlersIsolated ==
    /\ \A i \in 1..Len(handlers) :
            /\ AttrsOf(i) = ChainAttrs(handlers[i].chain)
            /\ GroupsOf(i) = ChainGroups(handlers[i].chain)
    /\ logged.h # 0 =>
            logged.line = HandleLine(ChainGroups(handlers[logged.h].chain),
                                     ChainAttrs(handlers[logged.h].chain),
                                     logged.record)

\* C30 witness: two handlers built by WithAttrs from the same parent, which
\* had room left in the array behind its attrs; the second call wrote its
\* attribute where the first had written its own, and both handlers show it.
C30_WitnessSiblingsShareArray ==
    \E i, j \in 1..Len(handlers) :
        /\ i < j
        /\ handlers[i].attrs.arr = handlers[j].attrs.arr
        /\ handlers[i].attrs.len = handlers[j].attrs.len
        /\ ChainAttrs(handlers[i].chain) # ChainAttrs(handlers[j].chain)
        /\ AttrsOf(i) = AttrsOf(j)

-----------------------------------------------------------------------------
(* The line logged for the result (specification Spec)                     *)

\* The lines logged by the last call, the internal failure line left out.
ResultLines ==
    { i \in DOMAIN records :
        /\ records[i].method = "Logf"
        /\ ~HasPrefix(records[i].line, "krostar/test internal failure") }

ResultPrefix == IF call.result THEN "Success: " ELSE "Error: "

\* The user message as C29 states it: one argument as is, several formatted
\* with the first one as the format string.
UserMessageAsStated ==
    IF UserArgs = << >> THEN ""
    ELSE IF Len(UserArgs) = 1 THEN " [" \o UserArgs[1].s \o "]"
    ELSE " [" \o Sprintf(UserArgs[1].s, Tail(UserArgs)) \o "]"

\* The user message when the first of several arguments need not be a
\* string: the arguments are then printed one after the other.
UserMessage ==
    IF Len(UserArgs) > 1 /\ UserArgs[1].t # "string"
    THEN " [" \o JoinValues(UserArgs) \o "]"
    ELSE UserMessageAsStated

\* C29 as stated: the line logged by Assert/Require is "Error: " or
\* "Success: ", the explanation and, when user arguments remain once a
\* leading empty string is discarded, the user message in square brackets:
\* one argument as is, several formatted with the first as the format string.
C29_ResultLineAsStated ==
    IsAssertion =>
        \A i \in ResultLines :
            records[i].line = ResultPrefix \o fromBool.msg \o UserMessageAsStated

\* C29 amended: Assert/Require log at most one line besides the internal
\* failure line; it is "Error: " or "Success: " after result, the explanation
\* and, when user arguments remain, the user message in square brackets: one
\* argument as is, several formatted with the first as the format string when
\* it is a string, and printed one after the other, space separated, when it
\* is not.
C29_ResultLineByFirstArgument ==
    IsAssertion =>
        /\ Cardinality(ResultLines) <= 1
        /\ \A i \in ResultLines :
                records[i].line = ResultPrefix \o fromBool.msg \o UserMessage

\* C29 witness: a failing Require called with 42 and "hello" logged the
\* explanation followed by [42 hello].
C29_WitnessFirstArgumentNotAString ==
    /\ call.op = "Require" /\ ~call.result
    /\ UserArgs = << IntV("42"), StrV("hello") >>
    /\ fromBool.msg # ""
    /\ \E i \in ResultLines :
            records[i].line = "Error: " \o fromBool.msg \o " [42 hello]"

====
